---- MODULE Spec2Model ----
(***************************************************************************)
(* Model of the review pipeline of CodeReviewerGenAI:                      *)
(*   - agents/graph.py      ReviewGraph: the LangGraph workflow and run()  *)
(*   - agents/summarizer.py SummarizerAgent: the score aggregation         *)
(*   - agents/plagiarism.py PlagiarismDetector: the similarity corpus      *)
(* Python dicts are functions whose DOMAIN is the set of keys present.     *)
(* Scores are exact rationals written as integers in units of 1/Unit.      *)
(***************************************************************************)
EXTENDS Integers, Sequences, FiniteSets, TLC

\* ------------------------------------------------------------------------
\* Bounds of the model
\* ------------------------------------------------------------------------
MaxTests == 2
MaxCases == 1

\* ------------------------------------------------------------------------
\* Python dict helpers
\* ------------------------------------------------------------------------
EmptyDict == [k \in {} |-> 0]

Get(d, k, default) == IF k \in DOMAIN d THEN d[k] ELSE default

Put(d, k, v) == [x \in (DOMAIN d) \cup {k} |-> IF x = k THEN v ELSE d[x]]

\* ------------------------------------------------------------------------
\* Strings that the code searches inside are sequences of characters
\* ------------------------------------------------------------------------
O_1 == <<"O", "(", "1", ")">>
O_n == <<"O", "(", "n", ")">>
O_n2 == <<"O", "(", "n", "²", ")">>
O_nPow3 == <<"O", "(", "n", "^", "3", ")">>

\* the elements of a sequence
Range(seq) == {seq[i] : i \in 1..Len(seq)}

\* Python's `pattern in text`
Contains(pattern, text) ==
    \E i \in 1..(Len(text) - Len(pattern) + 1) :
        SubSeq(text, i, i + Len(pattern) - 1) = pattern

\* ------------------------------------------------------------------------
\* SummarizerAgent: the score aggregation (agents/summarizer.py)
\* ------------------------------------------------------------------------
\* sub-scores are rationals in units of 1/Unit, weights are in percent
Unit == 8 * 3 * 5

\* complexity_scores, in the dict's insertion order
ComplexityTable ==
    << <<O_1, 100>>,
       <<(<<"O", "(", "l", "o", "g", " ", "n", ")">>), 90>>,
       <<O_n, 80>>,
       <<(<<"O", "(", "n", " ", "l", "o", "g", " ", "n", ")">>), 70>>,
       <<O_n2, 50>>,
       <<(<<"O", "(", "n", "³", ")">>), 30>>,
       <<(<<"O", "(", "2", "^", "n", ")">>), 10>> >>

DefaultComplexityScore == 60

\* _score_complexity: the first table pattern found in big_o, else 60
_score_complexity(complexity_report) ==
    LET tc == Get(complexity_report, "time_complexity", EmptyDict)
        time_complexity == Get(tc, "big_o", O_n)
        hits == {i \in 1..Len(ComplexityTable) :
                    Contains(ComplexityTable[i][1], time_complexity)}
    IN  IF hits = {}
        THEN DefaultComplexityScore * Unit
        ELSE ComplexityTable[CHOOSE i \in hits : \A j \in hits : i <= j][2] * Unit

Max(a, b) == IF a >= b THEN a ELSE b

RECURSIVE SumValues(_)
\* sum(d.values())
SumValues(d) ==
    IF DOMAIN d = {} THEN 0
    ELSE LET k == CHOOSE x \in DOMAIN d : TRUE
         IN  d[k] + SumValues([x \in (DOMAIN d) \ {k} |-> d[x]])

DefaultSubScore == 70

\* the "correctness" entry of scores in _calculate_overall_score
CorrectnessScore(report) ==
    IF Get(report, "total_tests", 0) /= 0
    THEN (Get(report, "tests_passed", 0) * 100 * Unit)
             \div Max(Get(report, "total_tests", 1), 1)
    ELSE DefaultSubScore * Unit

\* the "readability" entry; the four sub-scores are kept in half points
ReadabilityScore(report) ==
    IF Get(report, "scores", EmptyDict) /= EmptyDict
    THEN (SumValues(report["scores"]) * 10 * Unit) \div 8
    ELSE DefaultSubScore * Unit

\* the "robustness" entry
RobustnessScore(report) ==
    IF Get(report, "priority_cases", <<>>) /= <<>>
    THEN (Len(report["priority_cases"]) * 100 * Unit) \div 10
    ELSE DefaultSubScore * Unit

WeightCorrectness == 35
WeightComplexity == 25
WeightReadability == 20
WeightRobustness == 20

\* int() of the quotient num / den: the fraction is cut off, toward zero
IntOf(num, den) == IF num >= 0 THEN num \div den ELSE 0 - ((0 - num) \div den)

\* the agent_scores entries of summarize: as the sub-scores above, but with
\* the defaults 0, 0 and 50 for a missing report
DefaultAgentRobustness == 50

AgentScores(reports) ==
    [correctness |-> IF Get(reports[1], "total_tests", 0) /= 0
                     THEN CorrectnessScore(reports[1]) ELSE 0,
     complexity |-> _score_complexity(reports[2]),
     readability |-> IF Get(reports[3], "scores", EmptyDict) /= EmptyDict
                     THEN ReadabilityScore(reports[3]) ELSE 0,
     robustness |-> IF Get(reports[4], "priority_cases", <<>>) /= <<>>
                    THEN RobustnessScore(reports[4]) ELSE DefaultAgentRobustness * Unit]

\* an overall score that is the plain mean of the four sub-scores
_calculate_overall_score_Unweighted(reports) ==
    LET total == CorrectnessScore(reports[1]) * 25
               + _score_complexity(reports[2]) * 25
               + ReadabilityScore(reports[3]) * 25
               + RobustnessScore(reports[4]) * 25
    IN  IntOf(total, 100 * Unit)

\* _calculate_overall_score: int() of the weighted sum
_calculate_overall_score(reports) ==
    LET total == CorrectnessScore(reports[1]) * WeightCorrectness
               + _score_complexity(reports[2]) * WeightComplexity
               + ReadabilityScore(reports[3]) * WeightReadability
               + RobustnessScore(reports[4]) * WeightRobustness
    IN  IntOf(total, 100 * Unit)

MaxCriticalIssues == 5
MaxNamedHotspots == 3
ManyReadabilityIssues == 5

\* seq[:n]
Take(seq, n) == SubSeq(seq, 1, IF Len(seq) < n THEN Len(seq) ELSE n)

\* a hot-spot list naming every hot spot
HotspotEntry_AllNamed(hotspots) ==
    [issue |-> "High complexity in",
     functions |-> [i \in 1..Len(hotspots) |-> Get(hotspots[i], "function", "unknown")]]

\* the hot-spot message: the function names of hotspots[:3]
HotspotEntry(hotspots) ==
    [issue |-> "High complexity in",
     functions |-> [i \in 1..Len(Take(hotspots, MaxNamedHotspots)) |->
                        Get(hotspots[i], "function", "unknown")]]

\* _identify_critical_issues; a message is a record of its fixed text and
\* the value formatted into it
_identify_critical_issues(reports) ==
    LET failed == reports[1]["total_tests"] - reports[1]["tests_passed"]
        tests == IF Get(reports[1], "total_tests", 0) > 0 /\ failed > 0
                 THEN << [issue |-> "test(s) failing", count |-> failed] >>
                 ELSE <<>>
        hotspots == Get(reports[2], "hotspots", <<>>)
        complexity == IF hotspots /= <<>> THEN << HotspotEntry(hotspots) >> ELSE <<>>
        readability_issues == Get(reports[3], "issues", <<>>)
        readability == IF Len(readability_issues) > ManyReadabilityIssues
                       THEN << [issue |-> "readability issues found",
                                count |-> Len(readability_issues)] >>
                       ELSE <<>>
        priority_cases == Get(reports[4], "priority_cases", <<>>)
        critical_cases == {i \in 1..Len(priority_cases) :
                              Get(priority_cases[i], "severity", "none") = "critical"}
        edge_cases == IF critical_cases /= {}
                      THEN << [issue |-> "critical edge cases to test",
                               count |-> Cardinality(critical_cases)] >>
                      ELSE <<>>
    IN  Take(tests \o complexity \o readability \o edge_cases, MaxCriticalIssues)

\* summarize: the score is computed first, then the three language-model
\* calls are awaited with no handler around them, so a failing call
\* propagates out of summarize
summarize(correctness_report, complexity_report, readability_report, edge_cases_report, llm_ok) ==
    LET reports == <<correctness_report, complexity_report,
                     readability_report, edge_cases_report>>
    IN  IF ~llm_ok
        THEN [raised |-> TRUE, value |-> EmptyDict]
        ELSE [raised |-> FALSE,
              value |-> [overall_score |-> _calculate_overall_score(reports),
                         critical_issues |-> _identify_critical_issues(reports),
                         agent_scores |-> AgentScores(reports)]]

\* ------------------------------------------------------------------------
\* PlagiarismDetector (agents/plagiarism.py)
\* ------------------------------------------------------------------------
MaxShapes == 2
MaxCorpus == 1

\* similarity scores are rationals in units of 1/SimUnit
SimBase == 3 * 4 * 5
SimUnit == SimBase * SimBase

\* A source text is given by whether ast.parse accepts it, the shape of its
\* tree and the identifier names it uses.  Two parsable sources with the same
\* shape differ only in identifier names.
Names == {"f", "g"}

Sources ==
    [parsable : {TRUE}, shape : 1..MaxShapes, names : Names]
    \cup [parsable : {FALSE}, shape : {0}, names : {"f"}]

Labels == {"sol-1", "sol-2"}

\* the addresses at which ast.parse can allocate the Module node
Addresses == {"0x7f01", "0x7f02"}

\* what ast.walk finds in a tree of the given shape
TreeCounts(shape) ==
    [num_functions |-> shape,
     num_classes |-> shape \div 2,
     num_loops |-> shape - 1,
     num_conditionals |-> shape % 2,
     imports |-> IF shape > 1 THEN {"os"} ELSE {}]

\* _extract_structural_features: the counts of the tree; a source that does
\* not parse keeps the initial all-zero features
_extract_structural_features(code) ==
    IF code.parsable
    THEN [num_functions |-> TreeCounts(code.shape).num_functions,
          num_classes |-> TreeCounts(code.shape).num_classes,
          num_loops |-> TreeCounts(code.shape).num_loops,
          num_conditionals |-> TreeCounts(code.shape).num_conditionals,
          avg_function_length |-> 0,
          max_nesting_depth |-> 0,
          imports |-> TreeCounts(code.shape).imports]
    ELSE [num_functions |-> 0, num_classes |-> 0, num_loops |-> 0,
          num_conditionals |-> 0, avg_function_length |-> 0,
          max_nesting_depth |-> 0, imports |-> {}]

\* _normalize_ast overwrites names and constants in place and returns the
\* same Module object, so the object keeps the address it was parsed at
_normalize_ast(tree) == tree

\* str() of an ast.Module is the default object repr: the type and the address
StrOfNode(tree) == <<"ast.Module object at", tree.addr>>

\* hashlib.md5(...).hexdigest(): distinct strings get distinct digests
Md5(text) == text

\* the ast_hash computed in _check_ast_similarity and add_to_database
AstHash(code, addr) ==
    Md5(StrOfNode(_normalize_ast([addr |-> addr, shape |-> code.shape])))

RECURSIVE SeqSum(_)
SeqSum(seq) == IF seq = <<>> THEN 0 ELSE Head(seq) + SeqSum(Tail(seq))

RECURSIVE SeqMax(_)
SeqMax(seq) == IF Len(seq) = 1 THEN seq[1] ELSE Max(seq[1], SeqMax(Tail(seq)))

RECURSIVE SelectIdx(_, _, _)
\* the indices i of 1..n, in order, for which keep[i] holds
SelectIdx(keep, i, n) ==
    IF i > n THEN <<>>
    ELSE (IF keep[i] THEN <<i>> ELSE <<>>) \o SelectIdx(keep, i + 1, n)

Abs(a) == IF a >= 0 THEN a ELSE -a

NumericKeys == <<"num_functions", "num_classes", "num_loops", "num_conditionals">>

\* _calculate_structural_similarity, in units of 1/SimUnit
_calculate_structural_similarity(features1, features2) ==
    IF features1 = EmptyDict \/ features2 = EmptyDict THEN 0
    ELSE
    LET usedKeys == SelectIdx(
            [i \in 1..4 |->
                /\ NumericKeys[i] \in DOMAIN features1
                /\ NumericKeys[i] \in DOMAIN features2
                /\ Max(features1[NumericKeys[i]], features2[NumericKeys[i]]) > 0],
            1, 4)
        numeric == [j \in 1..Len(usedKeys) |->
            LET a == features1[NumericKeys[usedKeys[j]]]
                b == features2[NumericKeys[usedKeys[j]]]
            IN  SimBase - (Abs(a - b) * SimBase) \div Max(a, b)]
        imports1 == Get(features1, "imports", {})
        imports2 == Get(features2, "imports", {})
        withImports ==
            IF imports1 /= {} \/ imports2 /= {}
            THEN Append(numeric,
                        (Cardinality(imports1 \cap imports2) * SimBase)
                            \div Cardinality(imports1 \cup imports2))
            ELSE numeric
    IN  IF withImports = <<>> THEN 0
        ELSE (SeqSum(withImports) * SimBase) \div Len(withImports)

\* the match thresholds written into the two later methods
TfidfMatchThreshold == (7 * SimUnit) \div 10
StructureMatchThreshold == (8 * SimUnit) \div 10
DefaultThreshold == (8 * SimUnit) \div 10

\* _check_ast_similarity without the try around ast.parse's failure: the
\* hash is taken of whatever object was built
_check_ast_similarity_NoParseGuard(code, addr, corpus) ==
    LET ast_hash == AstHash(code, addr)
        hit == SelectIdx(
            [i \in 1..Len(corpus) |->
                "ast_hash" \in DOMAIN corpus[i] /\ corpus[i].ast_hash = ast_hash],
            1, Len(corpus))
        matches == [j \in 1..Len(hit) |->
            [source |-> Get(corpus[hit[j]], "source", "unknown"),
             similarity |-> SimUnit,
             method |-> "exact_ast_match"]]
    IN  [score |-> IF matches /= <<>> THEN SimUnit ELSE 0,
         matches |-> matches,
         ast_hash |-> ast_hash]

\* _check_ast_similarity
_check_ast_similarity(code, addr, corpus) ==
    IF ~code.parsable
    THEN [score |-> 0, matches |-> <<>>, error |-> "SyntaxError"]
    ELSE
    LET ast_hash == AstHash(code, addr)
        hit == SelectIdx(
            [i \in 1..Len(corpus) |->
                "ast_hash" \in DOMAIN corpus[i] /\ corpus[i].ast_hash = ast_hash],
            1, Len(corpus))
        matches == [j \in 1..Len(hit) |->
            [source |-> Get(corpus[hit[j]], "source", "unknown"),
             similarity |-> SimUnit,
             method |-> "exact_ast_match"]]
    IN  [score |-> IF matches /= <<>> THEN SimUnit ELSE 0,
         matches |-> matches,
         ast_hash |-> ast_hash]

\* the cosine similarities the vectorizer can give for the query against
\* each corpus text: a text identical to the query gives 1, any other text
\* some value from 0 to 1
TfidfLevels == {0, DefaultThreshold, SimUnit}

CosineSimilarities(code, corpus) ==
    {sims \in [1..Len(corpus) -> TfidfLevels] :
        \A i \in 1..Len(corpus) : corpus[i].code = code => sims[i] = SimUnit}

\* _check_tfidf_similarity, given the cosine similarities
_check_tfidf_similarity(code, sims, corpus) ==
    IF corpus = <<>> THEN [score |-> 0, matches |-> <<>>]
    ELSE
    LET hit == SelectIdx([i \in 1..Len(corpus) |-> sims[i] > TfidfMatchThreshold],
                         1, Len(corpus))
    IN  [score |-> SeqMax(sims),
         matches |-> [j \in 1..Len(hit) |->
            [source |-> Get(corpus[hit[j]], "source", "unknown"),
             similarity |-> sims[hit[j]],
             method |-> "tfidf"]]]

\* _check_structure_similarity
_check_structure_similarity(code, corpus) ==
    LET features == _extract_structural_features(code)
        sim == [i \in 1..Len(corpus) |->
            _calculate_structural_similarity(
                features, Get(corpus[i], "features", EmptyDict))]
        hit == SelectIdx([i \in 1..Len(corpus) |-> sim[i] > StructureMatchThreshold],
                         1, Len(corpus))
        matches == [j \in 1..Len(hit) |->
            [source |-> Get(corpus[hit[j]], "source", "unknown"),
             similarity |-> sim[hit[j]],
             method |-> "structural"]]
    IN  [score |-> IF matches /= <<>>
                   THEN SeqMax([j \in 1..Len(matches) |-> matches[j].similarity])
                   ELSE 0,
         matches |-> matches,
         features |-> features]

\* a comparison that also stops on a score equal to the threshold
Exceeds_OrEqual(score, threshold) == score >= threshold

\* the comparison that ends detect early
Exceeds(score, threshold) == score > threshold

\* detect; `calls` is not a key of the returned dict: it lists the methods
\* in the order detect invoked them
detect(code, threshold, addr, sims, corpus) ==
    LET ast_similarity == _check_ast_similarity(code, addr, corpus)
        tfidf_similarity == _check_tfidf_similarity(code, sims, corpus)
        struct_similarity == _check_structure_similarity(code, corpus)
    IN  IF Exceeds(ast_similarity.score, threshold)
        THEN [similarity_score |-> ast_similarity.score,
              matches |-> ast_similarity.matches,
              method |-> "ast",
              details |-> ast_similarity,
              calls |-> <<"ast">>]
        ELSE IF Exceeds(tfidf_similarity.score, threshold)
        THEN [similarity_score |-> tfidf_similarity.score,
              matches |-> tfidf_similarity.matches,
              method |-> "tfidf",
              details |-> tfidf_similarity,
              calls |-> <<"ast", "tfidf">>]
        ELSE [similarity_score |-> struct_similarity.score,
              matches |-> struct_similarity.matches,
              method |-> "structure",
              details |-> struct_similarity,
              calls |-> <<"ast", "tfidf", "structure">>]

\* the one statement of detect's three methods that reads an entry outside
\* every try: `s["code"]` in _check_tfidf_similarity raises KeyError for an
\* entry without that key; the method is reached when the first did not stop
detect_raises(code, threshold, addr, corpus) ==
    /\ ~Exceeds(_check_ast_similarity(code, addr, corpus).score, threshold)
    /\ \E i \in 1..Len(corpus) : "code" \notin DOMAIN corpus[i]

VARIABLES
    known_solutions,  \* PlagiarismDetector.known_solutions
    query,            \* the arguments detect is called with: code, threshold
    last_add,         \* history: the last add_to_database call and the corpus before it
    last_detect       \* history: the detect call, if it came after the last add

detVars == <<known_solutions, query, last_add, last_detect>>

\* the threshold arguments detect is called with; the default is 0.8
Thresholds == {DefaultThreshold, SimUnit}

\* `import_datetime()` in add_to_database is a bare name; the module binds no
\* such global (import_datetime is a method), so evaluating it raises NameError
ImportDatetimeRaises == TRUE

\* add_to_database: everything is inside one try; the entry dict is built,
\* timestamp last, before append is called, and any exception is only logged
add_to_database(code, source, addr, corpus) ==
    IF ~code.parsable THEN corpus
    ELSE IF ImportDatetimeRaises THEN corpus
    ELSE Append(corpus, [code |-> code,
                         source |-> source,
                         ast_hash |-> AstHash(code, addr),
                         features |-> _extract_structural_features(code)])

AddToDatabase ==
    /\ \E code \in Sources, source \in Labels, addr \in Addresses :
        /\ known_solutions' = add_to_database(code, source, addr, known_solutions)
        /\ last_add' = [called |-> TRUE, code |-> code, source |-> source,
                         before |-> known_solutions]
    /\ last_detect' = [called |-> FALSE]
    /\ UNCHANGED query

Detect ==
    /\ \E addr \in Addresses :
        \E sims \in CosineSimilarities(query.code, known_solutions) :
            last_detect' =
                [called |-> TRUE,
                 raised |-> detect_raises(query.code, query.threshold, addr,
                                          known_solutions),
                 ast |-> _check_ast_similarity(query.code, addr, known_solutions),
                 tfidf |-> _check_tfidf_similarity(query.code, sims, known_solutions),
                 result |-> detect(query.code, query.threshold, addr, sims,
                                   known_solutions)]
    /\ UNCHANGED <<known_solutions, query, last_add>>

\* _calculate_structural_similarity called on its own, on the two feature
\* dicts in `query`, in either order of the arguments
CalculateStructuralSimilarity ==
    /\ last_detect' =
            [called |-> TRUE,
             similarity |-> _calculate_structural_similarity(query.features1,
                                                             query.features2),
             swapped |-> _calculate_structural_similarity(query.features2,
                                                          query.features1)]
    /\ UNCHANGED <<known_solutions, query, last_add>>

\* the feature dicts _extract_structural_features can return: four counts,
\* the imported module names and the two keys that stay 0
MaxCount == 2

FeatureVectors ==
    {[num_functions |-> f, num_classes |-> c, num_loops |-> l, num_conditionals |-> i,
      avg_function_length |-> 0, max_nesting_depth |-> 0, imports |-> m] :
        f \in 0..MaxCount, c \in {0, 1}, l \in 0..MaxCount, i \in {0, 1},
        m \in SUBSET {"os", "re"}}

\* the entries a corpus can hold when the detector is put to use
CorpusEntries ==
    {[code |-> c, source |-> l, ast_hash |-> AstHash(c, a),
      features |-> _extract_structural_features(c)] :
        c \in {x \in Sources : x.parsable /\ x.names = "f"},
        l \in {"sol-1"}, a \in {"0x7f01"}}

Corpora == UNION {[1..n -> CorpusEntries] : n \in 0..MaxCorpus}

\* ---- requests served in parallel ----------------------------------------
\* app.py serves every request in a thread of its own, and the agents are
\* objects shared by all requests.  PlagiarismDetector takes no lock, so the
\* statements of detect and add_to_database calls made by different threads
\* interleave freely; a thread's position is the last statement it completed.
MaxThreads == 2

Threads == 1..MaxThreads

VARIABLES
    threads           \* per request thread: the call it is in and its position

thrVars == <<threads>>

\* the sources the requests submit
ThreadCodes == {c \in Sources : c.shape <= 1 /\ c.names = "f"}

Idle == [op |-> "idle"]

\* detect up to the return after the first method
DetectAst(t) ==
    /\ threads[t] = Idle
    /\ \E code \in ThreadCodes, addr \in Addresses :
        LET ast_similarity == _check_ast_similarity(code, addr, known_solutions)
        IN  threads' = [threads EXCEPT ![t] =
                [op |-> "detect", code |-> code, threshold |-> DefaultThreshold,
                 pc |-> IF Exceeds(ast_similarity.score, DefaultThreshold)
                        THEN "returned" ELSE "ast",
                 seen |-> <<known_solutions>>]]
    /\ UNCHANGED known_solutions

\* detect from the second method up to the return after it
DetectTfidf(t) ==
    /\ threads[t].op = "detect"
    /\ threads[t].pc = "ast"
    /\ \E sims \in CosineSimilarities(threads[t].code, known_solutions) :
        LET tfidf_similarity ==
                _check_tfidf_similarity(threads[t].code, sims, known_solutions)
        IN  threads' = [threads EXCEPT
                ![t].pc = IF Exceeds(tfidf_similarity.score, threads[t].threshold)
                          THEN "returned" ELSE "tfidf",
                ![t].seen = Append(@, known_solutions)]
    /\ UNCHANGED known_solutions

\* detect from the third method to its return
DetectStructure(t) ==
    /\ threads[t].op = "detect"
    /\ threads[t].pc = "tfidf"
    /\ threads' = [threads EXCEPT ![t].pc = "returned",
                                  ![t].seen = Append(@, known_solutions)]
    /\ UNCHANGED known_solutions

\* add_to_database up to the features; a source ast.parse rejects ends the
\* call in the except clause
AddCompute(t) ==
    /\ threads[t] = Idle
    /\ \E code \in ThreadCodes, source \in {"sol-1"}, addr \in Addresses :
        threads' = [threads EXCEPT ![t] =
            [op |-> "add", code |-> code, source |-> source, addr |-> addr,
             pc |-> IF code.parsable THEN "computed" ELSE "returned"]]
    /\ UNCHANGED known_solutions

\* add_to_database from the append statement to its return
AddStore(t) ==
    /\ threads[t].op = "add"
    /\ threads[t].pc = "computed"
    /\ known_solutions' = add_to_database(threads[t].code, threads[t].source,
                                          threads[t].addr, known_solutions)
    /\ threads' = [threads EXCEPT ![t].pc = "returned"]

\* the request is answered and the thread takes the next one
ThreadReturn(t) ==
    /\ threads[t].op /= "idle"
    /\ threads[t].pc = "returned"
    /\ threads' = [threads EXCEPT ![t] = Idle]
    /\ UNCHANGED known_solutions

\* ---- SummarizerAgent as an object: its feedback history ------------------
Users == {"u1", "u2"}

\* ratings below, at and above the neutral rating 3
Ratings == {1, 3, 5}

NeutralRating == 3

\* user_feedback = [f for f in self.feedback_history if f.get("user_id") == user_id]
RECURSIVE FeedbackOf(_, _)
FeedbackOf(history, user_id) ==
    IF history = <<>> THEN <<>>
    ELSE (IF Get(Head(history), "user_id", "none") = user_id
          THEN <<Head(history)>> ELSE <<>>) \o FeedbackOf(Tail(history), user_id)

\* _get_user_preferences
_get_user_preferences(history, user_id) ==
    LET user_feedback == FeedbackOf(history, user_id)
        concise_count == Cardinality({i \in 1..Len(user_feedback) :
                            Get(user_feedback[i], "rating", NeutralRating) < NeutralRating})
        detailed_count == Cardinality({i \in 1..Len(user_feedback) :
                            Get(user_feedback[i], "rating", NeutralRating) > NeutralRating})
    IN  IF user_feedback = <<>> THEN EmptyDict
        ELSE IF concise_count > detailed_count THEN [style |-> "concise"]
        ELSE IF detailed_count > concise_count THEN [style |-> "detailed"]
        ELSE EmptyDict

\* `import_datetime()` in record_feedback is a bare name; import_datetime is
\* a method of SummarizerAgent and no global of the module, so the call
\* raises NameError
FeedbackTimestampRaises == TRUE

\* record_feedback: the entry dict is built, timestamp last, before append is
\* called; nothing catches the exception
record_feedback(history, review_id, user_id, rating) ==
    IF FeedbackTimestampRaises
    THEN [raised |-> TRUE, feedback_history |-> history]
    ELSE [raised |-> FALSE,
          feedback_history |-> Append(history, [review_id |-> review_id,
                                                user_id |-> user_id,
                                                rating |-> rating,
                                                comments |-> ""])]

VARIABLES
    feedback_history, \* SummarizerAgent.feedback_history
    reports,          \* the four reports summarize is called with
    summary           \* history: the last call of a SummarizerAgent method

sumVars == <<feedback_history, reports, summary>>

\* summarize on the four reports; the texts the language model writes are
\* not part of the record
Summarize ==
    /\ \E llm_ok \in BOOLEAN :
        summary' = [called |-> TRUE, op |-> "summarize",
                    result |-> summarize(reports[1], reports[2], reports[3],
                                         reports[4], llm_ok)]
    /\ UNCHANGED <<feedback_history, reports>>

RecordFeedback ==
    /\ \E user_id \in Users, rating \in Ratings :
        LET out == record_feedback(feedback_history, "r1", user_id, rating)
        IN  /\ feedback_history' = out.feedback_history
            /\ summary' = [called |-> TRUE, op |-> "record_feedback",
                           user_id |-> user_id, rating |-> rating,
                           raised |-> out.raised, before |-> feedback_history]
    /\ UNCHANGED reports

GetUserPreferences ==
    /\ \E user_id \in Users :
        summary' = [called |-> TRUE, op |-> "_get_user_preferences",
                    user_id |-> user_id,
                    result |-> _get_user_preferences(feedback_history, user_id)]
    /\ UNCHANGED <<feedback_history, reports>>

\* the reports the four analysis agents hand to summarize
MaxHotspots == 4
MaxIssues == 6
MaxPriority == 2

SummarizerInputs ==
    {<<correctness, complexity, readability, edge_cases>> :
        correctness \in {EmptyDict} \cup
            UNION {{[total_tests |-> t, tests_passed |-> p] : p \in 0..t} :
                        t \in {0, MaxTests}},
        complexity \in
            {[time_complexity |-> [big_o |-> O_n],
              hotspots |-> [i \in 1..n |-> [function |-> <<"f", i>>,
                                            complexity |-> 6, line |-> i]]] :
                n \in 0..MaxHotspots},
        readability \in
            {[scores |-> [naming |-> 20, documentation |-> 20,
                          structure |-> 20, style |-> 20],
              issues |-> [i \in 1..n |-> "issue"]] : n \in 0..MaxIssues},
        edge_cases \in {EmptyDict} \cup
            {[priority_cases |-> c] :
                c \in UNION {[1..n -> [severity : {"critical", "high"}]] :
                                n \in 0..MaxPriority}}}

\* ------------------------------------------------------------------------
\* Syntax trees, as ast.parse builds them.  A node is a record with its class
\* name in `kind` and its child nodes, in the order generic_visit walks them,
\* in `body`; further fields are the node's attributes.
\* ------------------------------------------------------------------------
MaxNest == 3

Node(kind, body) == [kind |-> kind, body |-> body]

Pass == Node("Pass", <<>>)

\* the compound statements nested n deep, one inside the other
RECURSIVE NestedChains(_, _)
NestedChains(kinds, n) ==
    IF n = 1
    THEN {Node(k, <<Pass>>) : k \in kinds}
    ELSE {Node(k, <<c>>) : k \in kinds, c \in NestedChains(kinds, n - 1)}

\* modules of up to two top-level compound statements
LoopTrees ==
    LET chains == UNION {NestedChains({"For", "While", "If"}, n) : n \in 1..MaxNest}
    IN  {Node("Module", stmts) : stmts \in UNION {[1..m -> chains] : m \in 0..2}}

\* str() of a non-negative int, as characters
RECURSIVE StrOfInt(_)
StrOfInt(n) ==
    LET digit == <<"0", "1", "2", "3", "4", "5", "6", "7", "8", "9">>[(n % 10) + 1]
    IN  IF n < 10 THEN <<digit>> ELSE Append(StrOfInt(n \div 10), digit)

\* ------------------------------------------------------------------------
\* ComplexityAgent (agents/complexity.py)
\* ------------------------------------------------------------------------
\* the label get_complexity gives depth 2, as the source file holds it
O_n2_Visitor == <<"O", "(", "n", "Â", "²", ")">>

\* LoopComplexityVisitor: visit_For and visit_While, generic_visit for every
\* other node.  loop_lines is collected but never read and is left out; the
\* entries of complexity_factors are kept without their line number.
RECURSIVE LoopVisit(_, _), LoopVisitAll(_, _, _, _)
LoopVisit(node, v) ==
    IF node.kind \in {"For", "While"}
    THEN LET entered ==
                [loop_depth |-> v.loop_depth + 1,
                 max_depth |-> Max(v.max_depth, v.loop_depth + 1),
                 complexity_factors |->
                    IF v.loop_depth + 1 > 1
                    THEN Append(v.complexity_factors,
                                IF node.kind = "For" THEN "nested loop"
                                ELSE "nested while loop")
                    ELSE v.complexity_factors]
             visited == LoopVisitAll(node.body, 1, Len(node.body), entered)
         IN  [visited EXCEPT !.loop_depth = @ - 1]
    ELSE LoopVisitAll(node.body, 1, Len(node.body), v)

\* generic_visit: the children lo..hi in order, each starting from the state
\* the one before left.  The range is split in two and the state after the
\* first half is computed (by the test on it) before the second half is
\* entered; this only keeps the evaluation shallow.
LoopVisitAll(children, lo, hi, v) ==
    IF lo > hi THEN v
    ELSE IF lo = hi THEN LoopVisit(children[lo], v)
    ELSE LET mid == (lo + hi) \div 2
             first == LoopVisitAll(children, lo, mid, v)
         IN  IF first = first THEN LoopVisitAll(children, mid + 1, hi, first) ELSE v

LoopComplexityVisitor == [loop_depth |-> 0, max_depth |-> 0, complexity_factors |-> <<>>]

\* a get_complexity that takes every depth from 2 up for quadratic
LoopGetComplexity_QuadraticFromTwo(v) ==
    CASE v.max_depth = 0 ->
            [big_o |-> O_1, explanation |-> <<"No loops detected - constant time">>,
             hotspots |-> v.complexity_factors]
      [] v.max_depth = 1 ->
            [big_o |-> O_n, explanation |-> <<"Single loop - linear time">>,
             hotspots |-> v.complexity_factors]
      [] OTHER ->
            [big_o |-> O_n2_Visitor,
             explanation |-> <<"Nested loops detected - quadratic time">>,
             hotspots |-> v.complexity_factors]

\* LoopComplexityVisitor.get_complexity
LoopGetComplexity(v) ==
    CASE v.max_depth = 0 ->
            [big_o |-> O_1, explanation |-> <<"No loops detected - constant time">>,
             hotspots |-> v.complexity_factors]
      [] v.max_depth = 1 ->
            [big_o |-> O_n, explanation |-> <<"Single loop - linear time">>,
             hotspots |-> v.complexity_factors]
      [] v.max_depth = 2 ->
            [big_o |-> O_n2_Visitor,
             explanation |-> <<"Nested loops detected - quadratic time">>,
             hotspots |-> v.complexity_factors]
      [] OTHER ->
            [big_o |-> <<"O", "(", "n", "^">> \o StrOfInt(v.max_depth) \o <<")">>,
             explanation |-> <<"Deeply nested loops (depth ">> \o StrOfInt(v.max_depth)
                                \o <<") - polynomial time">>,
             hotspots |-> v.complexity_factors]

\* ---- expression and statement nodes that allocate, or look as if they do
MaxSites == 6

Name(id, ctx) == [kind |-> "Name", id |-> id, ctx |-> ctx, body |-> <<>>]

\* ast.List carries a ctx; ast.Dict and ast.Set have no such attribute
ListNode(ctx) == [kind |-> "List", ctx |-> ctx, body |-> <<>>]

\* a call; the callee expression is kept in `func` (no visitor here has a
\* method that reacts to a callee in Load context)
Call(func) == [kind |-> "Call", func |-> func, body |-> <<>>]

Attribute(attr) == [kind |-> "Attribute", attr |-> attr, body |-> <<>>]

FunctionDef(name, nargs, doc, lineno, end_lineno, body) ==
    [kind |-> "FunctionDef", name |-> name, nargs |-> nargs, docstring |-> doc,
     lineno |-> lineno, end_lineno |-> end_lineno, body |-> body]

\* data = [..] / [a, b] = data / data = {..: ..} / data = {..} / data = list()
\* / print() / data = collections.deque()
AllocStmts ==
    {Node("Assign", <<Name("data", "Store"), ListNode("Load")>>),
     Node("Assign", <<ListNode("Store"), Name("data", "Load")>>),
     Node("Assign", <<Name("data", "Store"), Node("Dict", <<>>)>>),
     Node("Assign", <<Name("data", "Store"), Node("Set", <<>>)>>),
     Node("Assign", <<Name("data", "Store"), Call(Name("list", "Load"))>>),
     Node("Expr", <<Call(Name("print", "Load"))>>),
     Node("Assign", <<Name("data", "Store"), Call(Attribute("deque"))>>)}

\* one or two such statements at module level, one inside a function, and
\* modules of up to MaxSites constructor calls
AllocTrees ==
    {Node("Module", <<s>>) : s \in AllocStmts}
    \cup {Node("Module", <<s, t>>) : s, t \in AllocStmts}
    \cup {Node("Module", <<FunctionDef("load_all", 0, TRUE, 1, 2, <<s>>)>>) :
            s \in AllocStmts}
    \cup {Node("Module",
               [i \in 1..n |-> Node("Assign", <<Name("data", "Store"),
                                                Call(Name("dict", "Load"))>>)]) :
            n \in 0..MaxSites}

\* MemoryComplexityVisitor: visit_FunctionDef, visit_List, visit_Dict and
\* visit_Call, each followed by generic_visit; an entry of allocations is kept
\* as what was found and the current_function, without the line number
RECURSIVE MemoryVisit(_, _), MemoryVisitAll(_, _, _, _)
MemoryVisit(node, v) ==
    LET here ==
            CASE node.kind = "FunctionDef" ->
                    [v EXCEPT !.current_function = node.name]
              [] node.kind = "List" ->
                    IF "ctx" \in DOMAIN node /\ node.ctx = "Store"
                    THEN [v EXCEPT !.allocations =
                            Append(@, <<"List allocation", v.current_function>>)]
                    ELSE v
              [] node.kind = "Dict" ->
                    IF "ctx" \in DOMAIN node /\ node.ctx = "Store"
                    THEN [v EXCEPT !.allocations =
                            Append(@, <<"Dict allocation", v.current_function>>)]
                    ELSE v
              [] node.kind = "Call" ->
                    IF node.func.kind = "Name" /\ node.func.id \in {"list", "dict", "set"}
                    THEN [v EXCEPT !.allocations =
                            Append(@, <<"Collection constructor", v.current_function>>)]
                    ELSE v
              [] OTHER -> v
    IN  MemoryVisitAll(node.body, 1, Len(node.body), here)

MemoryVisitAll(children, lo, hi, v) ==
    IF lo > hi THEN v
    ELSE IF lo = hi THEN MemoryVisit(children[lo], v)
    ELSE LET mid == (lo + hi) \div 2
             first == MemoryVisitAll(children, lo, mid, v)
         IN  IF first = first THEN MemoryVisitAll(children, mid + 1, hi, first) ELSE v

MemoryComplexityVisitor == [allocations |-> <<>>, current_function |-> "None"]

MaxDetails == 5

\* MemoryComplexityVisitor.get_complexity
MemoryGetComplexity(v) ==
    [big_o |-> IF v.allocations = <<>> THEN O_1 ELSE O_n,
     explanation |-> IF v.allocations = <<>>
                     THEN "Constant space usage"
                     ELSE "Allocates data structures based on input size",
     details |-> SubSeq(v.allocations, 1, IF Len(v.allocations) < MaxDetails
                                          THEN Len(v.allocations) ELSE MaxDetails)]

\* what radon's cc_visit and mi_visit give for the source: they raise (and
\* the bare excepts keep the zeros), or yield the largest block complexity
\* and the maintainability index
RadonOutcomes ==
    {[raises |-> TRUE, complexity |-> 0, mi |-> 0],
     [raises |-> FALSE, complexity |-> 1, mi |-> 100],
     [raises |-> FALSE, complexity |-> 6, mi |-> 50]}

HotspotComplexity == 5

DefaultAnalysis ==
    [time |-> [big_o |-> O_1, explanation |-> <<"">>, hotspots |-> <<>>],
     space |-> [big_o |-> O_1, explanation |-> "", details |-> <<>>],
     cyclomatic |-> 0,
     maintainability |-> 0,
     hotspots |-> <<>>]

\* ComplexityAgent._analyze_python: ast.parse and both visitors sit in one
\* try whose handler only logs, so a source that does not parse keeps the
\* initial analysis
_analyze_python(code, radon) ==
    IF ~code.parsable THEN DefaultAnalysis
    ELSE [time |-> LoopGetComplexity(LoopVisit(code.tree, LoopComplexityVisitor)),
          space |-> MemoryGetComplexity(MemoryVisit(code.tree, MemoryComplexityVisitor)),
          cyclomatic |-> IF radon.raises THEN 0 ELSE radon.complexity,
          maintainability |-> IF radon.raises THEN 0 ELSE radon.mi,
          hotspots |-> IF ~radon.raises /\ radon.complexity > HotspotComplexity
                       THEN <<[function |-> "block", complexity |-> radon.complexity]>>
                       ELSE <<>>]

\* ComplexityAgent._analyze_general, once the model has answered: the JSON
\* object found in the answer, whose keys are the ones the prompt asks for,
\* or the fallback dict
_analyze_general(answer_is_json) ==
    IF answer_is_json
    THEN [time_complexity |-> <<"O", "(", "n", ")">>,
          space_complexity |-> <<"O", "(", "1", ")">>,
          hotspots |-> <<>>,
          explanation |-> "answer"]
    ELSE [time |-> [big_o |-> <<"Unknown">>, explanation |-> "answer"],
          space |-> [big_o |-> <<"Unknown">>, explanation |-> ""],
          hotspots |-> <<>>]

\* ComplexityAgent.analyze.  The three awaits of self.llm.ainvoke (in
\* _analyze_general, _generate_explanation, _get_optimization_suggestions)
\* have no handler: a failing call leaves analyze by its exception.
analyze(code, language, radon, answer_is_json, llm_ok) ==
    IF ~llm_ok THEN [raised |-> TRUE, value |-> EmptyDict]
    ELSE LET analysis == IF language = "python"
                         THEN _analyze_python(code, radon)
                         ELSE _analyze_general(answer_is_json)
         IN  [raised |-> FALSE,
              value |-> [time_complexity |-> Get(analysis, "time", EmptyDict),
                         space_complexity |-> Get(analysis, "space", EmptyDict),
                         cyclomatic_complexity |-> Get(analysis, "cyclomatic", 0),
                         maintainability_index |-> Get(analysis, "maintainability", 0),
                         hotspots |-> Get(analysis, "hotspots", <<>>),
                         explanation |-> "explanation",
                         suggestions |-> <<"suggestion">>]]

\* ------------------------------------------------------------------------
\* ReadabilityAgent (agents/readability.py).  Scores are counted in half
\* points: 20 is the score 10, a penalty of 0.5 is 1.
\* ------------------------------------------------------------------------
MaxFunctions == 11

\* the characters of the identifiers the trees use
Chars(id) ==
    CASE id = "data" -> <<"d", "a", "t", "a">>
      [] id = "list" -> <<"l", "i", "s", "t">>
      [] id = "dict" -> <<"d", "i", "c", "t">>
      [] id = "print" -> <<"p", "r", "i", "n", "t">>
      [] id = "load_all" -> <<"l", "o", "a", "d", "_", "a", "l", "l">>
      [] id = "run" -> <<"r", "u", "n">>
      [] id = "runIt" -> <<"r", "u", "n", "I", "t">>
      [] id = "n" -> <<"n">>
      [] id = "x" -> <<"x">>
      [] id = "Parser" -> <<"P", "a", "r", "s", "e", "r">>
      [] id = "parser" -> <<"p", "a", "r", "s", "e", "r">>

UpperCase ==
    {"A", "B", "C", "D", "E", "F", "G", "H", "I", "J", "K", "L", "M",
     "N", "O", "P", "Q", "R", "S", "T", "U", "V", "W", "X", "Y", "Z"}

LowerCase ==
    {"a", "b", "c", "d", "e", "f", "g", "h", "i", "j", "k", "l", "m",
     "n", "o", "p", "q", "r", "s", "t", "u", "v", "w", "x", "y", "z"}

\* str.islower(): no upper-case character and at least one lower-case one
islower(id) ==
    /\ \A i \in 1..Len(Chars(id)) : Chars(id)[i] \notin UpperCase
    /\ \E i \in 1..Len(Chars(id)) : Chars(id)[i] \in LowerCase

ClassDef(name, doc, body) ==
    [kind |-> "ClassDef", name |-> name, docstring |-> doc, body |-> body]

Module(doc, body) == [kind |-> "Module", docstring |-> doc, body |-> body]

\* ast.get_docstring(node); nodes built without the attribute have none
get_docstring(node) == "docstring" \in DOMAIN node /\ node.docstring

\* the i-th of the functions of a module, each `len` lines below its def
\* line: well or badly named, with or without docstring, of no or six
\* arguments, assigning to `data` or to `n`
FunctionAt(i, name, nargs, doc, len, var) ==
    FunctionDef(name, nargs, doc, 1 + (i - 1) * (len + 1), 1 + (i - 1) * (len + 1) + len,
                <<Node("Assign", <<Name(var, "Store"), Name("x", "Load")>>)>>)

\* modules of up to MaxFunctions functions of one make (10, 31 or 51 lines
\* long), and of one class
ReadabilityTrees ==
    {Module(mdoc, [i \in 1..n |-> FunctionAt(i, name, nargs, doc, len, var)]) :
        mdoc \in BOOLEAN, n \in 0..MaxFunctions,
        name \in {"load_all", "run", "runIt"}, nargs \in {0, 6}, doc \in BOOLEAN,
        len \in {10, 31, 51}, var \in {"data", "n"}}
    \cup {Module(TRUE, <<ClassDef(name, doc, <<Pass>>)>>) :
            name \in {"Parser", "parser"}, doc \in BOOLEAN}

NamePenalty == 2
VariablePenalty == 1
AllowedShortNames == {"i", "j", "k", "x", "y"}

\* NamingConventionVisitor: visit_FunctionDef, visit_ClassDef, visit_Name
RECURSIVE NamingVisit(_, _), NamingVisitAll(_, _, _, _)
NamingVisit(node, v) ==
    LET here ==
            CASE node.kind = "FunctionDef" ->
                    LET counted == [v EXCEPT !.function_count = @ + 1]
                    IN  IF ~islower(node.name) \/ "_" \notin Range(Chars(node.name))
                        THEN [counted EXCEPT !.issues = Append(@, "should use snake_case"),
                                             !.score = @ - NamePenalty]
                        ELSE counted
              [] node.kind = "ClassDef" ->
                    LET counted == [v EXCEPT !.class_count = @ + 1]
                    IN  IF Chars(node.name)[1] \notin UpperCase
                        THEN [counted EXCEPT !.issues = Append(@, "should use CamelCase"),
                                             !.score = @ - NamePenalty]
                        ELSE counted
              [] node.kind = "Name" ->
                    IF /\ node.ctx = "Store"
                       /\ Len(Chars(node.id)) = 1
                       /\ node.id \notin AllowedShortNames
                    THEN [v EXCEPT !.issues = Append(@, "consider a more descriptive name"),
                                   !.score = @ - VariablePenalty]
                    ELSE v
              [] OTHER -> v
    IN  NamingVisitAll(node.body, 1, Len(node.body), here)

NamingVisitAll(children, lo, hi, v) ==
    IF lo > hi THEN v
    ELSE IF lo = hi THEN NamingVisit(children[lo], v)
    ELSE LET mid == (lo + hi) \div 2
             first == NamingVisitAll(children, lo, mid, v)
         IN  IF first = first THEN NamingVisitAll(children, mid + 1, hi, first) ELSE v

InitialScore == 20

NamingConventionVisitor ==
    [issues |-> <<>>, score |-> InitialScore, function_count |-> 0, class_count |-> 0]

DocPenalty == 2

\* DocumentationVisitor: visit_FunctionDef, visit_ClassDef, visit_Module
RECURSIVE DocumentationVisit(_, _), DocumentationVisitAll(_, _, _, _)
DocumentationVisit(node, v) ==
    LET here ==
            CASE node.kind = "FunctionDef" ->
                    LET counted == [v EXCEPT !.total_functions = @ + 1]
                    IN  IF ~get_docstring(node)
                        THEN [counted EXCEPT !.issues = Append(@, "Function missing docstring"),
                                             !.score = @ - DocPenalty]
                        ELSE [counted EXCEPT !.functions_with_docstring = @ + 1]
              [] node.kind = "ClassDef" ->
                    IF ~get_docstring(node)
                    THEN [v EXCEPT !.issues = Append(@, "Class missing docstring"),
                                   !.score = @ - DocPenalty]
                    ELSE v
              [] node.kind = "Module" ->
                    IF ~get_docstring(node)
                    THEN [v EXCEPT !.issues = Append(@, "Module missing docstring"),
                                   !.score = @ - DocPenalty]
                    ELSE v
              [] OTHER -> v
    IN  DocumentationVisitAll(node.body, 1, Len(node.body), here)

DocumentationVisitAll(children, lo, hi, v) ==
    IF lo > hi THEN v
    ELSE IF lo = hi THEN DocumentationVisit(children[lo], v)
    ELSE LET mid == (lo + hi) \div 2
             first == DocumentationVisitAll(children, lo, mid, v)
         IN  IF first = first THEN DocumentationVisitAll(children, mid + 1, hi, first) ELSE v

DocumentationVisitor ==
    [issues |-> <<>>, score |-> InitialScore,
     functions_with_docstring |-> 0, total_functions |-> 0]

LongFunction == 50
LongishFunction == 30
ManyArguments == 5
LongPenalty == 2
LongishPenalty == 1
ArgumentsPenalty == 2

\* StructureVisitor: visit_FunctionDef and visit_Module.  avg_function_length
\* is the quotient sum / count, kept as that pair; visit_Module sets it
\* before it descends.
RECURSIVE StructureVisit(_, _), StructureVisitAll(_, _, _, _)
StructureVisit(node, v) ==
    LET here ==
            CASE node.kind = "FunctionDef" ->
                    LET function_lines == IF "end_lineno" \in DOMAIN node
                                          THEN node.end_lineno - node.lineno ELSE 0
                        measured == [v EXCEPT !.function_lengths = Append(@, function_lines)]
                        length_checked ==
                            IF function_lines > LongFunction
                            THEN [measured EXCEPT !.issues = Append(@, "is too long"),
                                                  !.score = @ - LongPenalty]
                            ELSE IF function_lines > LongishFunction
                            THEN [measured EXCEPT !.issues = Append(@, "Consider breaking down"),
                                                  !.score = @ - LongishPenalty]
                            ELSE measured
                    IN  IF node.nargs > ManyArguments
                        THEN [length_checked EXCEPT
                                !.issues = Append(@, "has too many arguments"),
                                !.score = @ - ArgumentsPenalty]
                        ELSE length_checked
              [] node.kind = "Module" ->
                    IF v.function_lengths /= <<>>
                    THEN [v EXCEPT !.avg_function_length =
                            [sum |-> SeqSum(v.function_lengths),
                             count |-> Len(v.function_lengths)]]
                    ELSE v
              [] OTHER -> v
    IN  StructureVisitAll(node.body, 1, Len(node.body), here)

StructureVisitAll(children, lo, hi, v) ==
    IF lo > hi THEN v
    ELSE IF lo = hi THEN StructureVisit(children[lo], v)
    ELSE LET mid == (lo + hi) \div 2
             first == StructureVisitAll(children, lo, mid, v)
         IN  IF first = first THEN StructureVisitAll(children, mid + 1, hi, first) ELSE v

StructureVisitor ==
    [issues |-> <<>>, score |-> InitialScore, function_lengths |-> <<>>,
     avg_function_length |-> [sum |-> 0, count |-> 1]]

MaxStylePenalty == 10

\* ReadabilityAgent._calculate_style_score
_calculate_style_score(issues) ==
    LET penalty == IF Len(issues) < MaxStylePenalty THEN Len(issues) ELSE MaxStylePenalty
    IN  Max(0, InitialScore - 2 * penalty)

\* what pylint reports for the source: the number of convention, refactor
\* and warning messages; none when pylint itself fails
PylintFindings == {0, 12}

MaxPylintIssues == 10

\* ReadabilityAgent._run_pylint
_run_pylint(findings) ==
    [i \in 1..(IF findings < MaxPylintIssues THEN findings ELSE MaxPylintIssues) |->
        "pylint message"]

\* len(code.splitlines()): the last line any function reaches, or one line
\* per statement
LineCount(tree) ==
    LET ends == {tree.body[i].end_lineno :
                    i \in {j \in 1..Len(tree.body) : "end_lineno" \in DOMAIN tree.body[j]}}
    IN  IF ends = {} THEN Len(tree.body) ELSE CHOOSE e \in ends : \A f \in ends : f <= e

\* ReadabilityAgent._analyze_python: ast.parse, the three visitors, pylint
\* and the style score sit in one try; a source that does not parse keeps
\* the initial scores and gets a "Parse error" issue
Readability_analyze_python(code, findings) ==
    IF ~code.parsable
    THEN [scores |-> [style |-> 0, documentation |-> 0, naming |-> 0, structure |-> 0],
          issues |-> <<"Parse error">>,
          metrics |-> EmptyDict]
    ELSE LET naming_visitor == NamingVisit(code.tree, NamingConventionVisitor)
             doc_visitor == DocumentationVisit(code.tree, DocumentationVisitor)
             struct_visitor == StructureVisit(code.tree, StructureVisitor)
             issues == naming_visitor.issues \o doc_visitor.issues
                        \o struct_visitor.issues \o _run_pylint(findings)
         IN  [scores |-> [style |-> _calculate_style_score(issues),
                          documentation |-> doc_visitor.score,
                          naming |-> naming_visitor.score,
                          structure |-> struct_visitor.score],
              issues |-> issues,
              metrics |-> [lines |-> LineCount(code.tree),
                           functions |-> naming_visitor.function_count,
                           classes |-> naming_visitor.class_count,
                           avg_function_length |-> struct_visitor.avg_function_length]]

\* ReadabilityAgent._analyze_general, once the model has answered: the JSON
\* object of the answer, or the fallback scores of 5
Readability_analyze_general(answer_is_json) ==
    IF answer_is_json
    THEN [scores |-> [style |-> 16, documentation |-> 12, naming |-> 18, structure |-> 14],
          issues |-> <<"issue">>,
          suggestions |-> <<"from the answer">>]
    ELSE [scores |-> [style |-> 10, documentation |-> 10, naming |-> 10, structure |-> 10],
          issues |-> <<"Analysis limited - using general guidelines">>,
          suggestions |-> <<>>]

\* ReadabilityAgent.review.  The awaits of self.llm.ainvoke (_analyze_general,
\* _generate_suggestions) have no handler; _format_code has one.
review(code, language, findings, answer_is_json, llm_ok) ==
    IF ~llm_ok THEN [raised |-> TRUE, value |-> EmptyDict]
    ELSE LET analysis == IF language = "python"
                         THEN Readability_analyze_python(code, findings)
                         ELSE Readability_analyze_general(answer_is_json)
         IN  [raised |-> FALSE,
              value |-> Put(Put(analysis, "suggestions", <<"suggestion">>),
                            "formatted_code", "formatted")]

\* ------------------------------------------------------------------------
\* ReviewGraph (agents/graph.py)
\* ------------------------------------------------------------------------
VARIABLES
    pc,             \* the node about to run; "idle", "END", "graph_error", "returned"
    initial_state,  \* the argument of run()
    run_state,      \* run()'s local `state`: initial_state with start_time set
    state,          \* the state the graph hands from node to node
    errors,         \* the list object state["errors"], shared by both dicts
    clock,          \* time.time()
    executed,       \* history: the stage nodes entered, in order
    raised,         \* history: the stages whose agent call raised
    written,        \* history: the result keys assigned by a node
    result          \* the dict run() returned

graphVars == <<pc, initial_state, run_state, state, errors, clock,
               executed, raised, written, result>>

Stages == <<"correctness", "complexity", "readability", "edge_cases",
            "plagiarism", "summarizer">>

StageSet == {Stages[i] : i \in 1..Len(Stages)}

\* every stage node storing its result under the one key correctness_result
ResultKey_Shared(stage) == [correctness |-> "correctness_result",
                            complexity  |-> "correctness_result",
                            readability |-> "correctness_result",
                            edge_cases  |-> "correctness_result",
                            plagiarism  |-> "correctness_result",
                            summarizer  |-> "correctness_result"][stage]

\* the key of ReviewState a stage node stores its result under
ResultKey(stage) == [correctness |-> "correctness_result",
                     complexity  |-> "complexity_result",
                     readability |-> "readability_result",
                     edge_cases  |-> "edge_cases_result",
                     plagiarism  |-> "plagiarism_result",
                     summarizer  |-> "summarizer_result"][stage]

ResultKeys == {ResultKey(s) : s \in StageSet}

\* the prefix of the entry a stage node appends to state["errors"]
ErrorLabel(stage) == [correctness |-> "Correctness",
                      complexity  |-> "Complexity",
                      readability |-> "Readability",
                      edge_cases  |-> "Edge Cases",
                      plagiarism  |-> "Plagiarism",
                      summarizer  |-> "Summarizer"][stage]

\* the edges with readability left out of the chain
Edge_SkipsReadability ==
    [correctness |-> "delay_1", delay_1 |-> "complexity",
     complexity  |-> "delay_2", delay_2 |-> "edge_cases",
     readability |-> "delay_3", delay_3 |-> "edge_cases",
     delay_4     |-> "plagiarism", plagiarism |-> "delay_5",
     delay_5     |-> "summarizer", summarizer |-> "END"]

\* add_edge calls of _build_graph
Edge == [correctness |-> "delay_1", delay_1 |-> "complexity",
         complexity  |-> "delay_2", delay_2 |-> "readability",
         readability |-> "delay_3", delay_3 |-> "edge_cases",
         delay_4     |-> "plagiarism", plagiarism |-> "delay_5",
         delay_5     |-> "summarizer", summarizer |-> "END"]

\* the mapping given to add_conditional_edges("edge_cases", ...)
PathMap == [True |-> "delay_4", False |-> "delay_5"]

\* a router that defaults to True when the flag is absent
_should_check_plagiarism_DefaultTrue(st) == Get(st, "plagiarism_check", "True")

\* _should_check_plagiarism: state.get("plagiarism_check", False)
_should_check_plagiarism(st) == Get(st, "plagiarism_check", "False")

\* where the graph goes after a node returned; a router value that is not
\* a key of the path map makes the engine raise out of ainvoke
NextNode(node, st) ==
    IF node = "edge_cases"
    THEN IF _should_check_plagiarism(st) \in DOMAIN PathMap
         THEN PathMap[_should_check_plagiarism(st)]
         ELSE "graph_error"
    ELSE Edge[node]

\* asyncio.sleep(2)
DelaySeconds == 2

\* ---- what an agent call can return -------------------------------------
CorrectnessReports ==
    {EmptyDict} \cup
    UNION {{[total_tests |-> t, tests_passed |-> p] : p \in 0..t} : t \in {0, MaxTests}}

ComplexityReports ==
    {EmptyDict} \cup
    {[time_complexity |-> [big_o |-> b]] : b \in {O_1, O_n2, O_nPow3}}

\* a documented module of one documented function that assigns three times
\* to a one-letter name
FewShortNames ==
    Module(TRUE, <<FunctionDef("load_all", 0, TRUE, 1, 11,
                               [i \in 1..3 |-> Node("Assign", <<Name("n", "Store"),
                                                                Name("x", "Load")>>)])>>)

\* an undocumented module of MaxFunctions long, undocumented, badly named
\* functions of six arguments
ManyViolations ==
    Module(FALSE, [i \in 1..MaxFunctions |-> FunctionAt(i, "run", 6, FALSE, 51, "n")])

\* what the readability agent returns: nothing, or its review of a source
ReadabilityReports ==
    {EmptyDict} \cup
    {review([parsable |-> TRUE, tree |-> t], "python", 0, FALSE, TRUE).value :
        t \in {FewShortNames, ManyViolations}}

Severities == {"critical", "low"}

EdgeCasesReports ==
    {EmptyDict} \cup
    {[priority_cases |-> c] : c \in UNION {[1..n -> [severity : Severities]] : n \in 0..MaxCases}}

\* the dict detect returns: every key of the record but `calls`
ReturnedDict(d) == [k \in (DOMAIN d) \ {"calls"} |-> d[k]]

\* agents["plagiarism"].detect(state["code"]), with the default threshold
PlagiarismReports ==
    {ReturnedDict(detect(state["code"], DefaultThreshold, a, sims, known_solutions)) :
        a \in Addresses, sims \in CosineSimilarities(state["code"], known_solutions)}

AgentReturns(stage) ==
    CASE stage = "correctness" -> CorrectnessReports
      [] stage = "complexity"  -> ComplexityReports
      [] stage = "readability" -> ReadabilityReports
      [] stage = "edge_cases"  -> EdgeCasesReports
      [] stage = "plagiarism"  -> PlagiarismReports

ErrorEntry(stage) == [stage |-> ErrorLabel(stage), message |-> "e"]

\* ---- the nodes ----------------------------------------------------------
\* a node without the try/except: the exception ends the graph run
NodeStep_Uncaught(stage, raises, value) ==
    LET st1 == Put(state, "current_agent", stage)
        st2 == IF raises THEN st1 ELSE Put(st1, ResultKey(stage), value)
    IN  /\ state' = st2
        /\ errors' = errors
        /\ raised' = IF raises THEN raised \cup {stage} ELSE raised
        /\ written' = IF raises THEN written ELSE written \cup {ResultKey(stage)}
        /\ pc' = IF raises THEN "END" ELSE NextNode(stage, st2)
        /\ executed' = Append(executed, stage)
        /\ UNCHANGED <<initial_state, run_state, clock, result>>

\* the body shared by the stage nodes: set current_agent, call the agent;
\* store its result, or catch the exception and append to errors
NodeStep(stage, raises, value) ==
    LET st1 == Put(state, "current_agent", stage)
        st2 == IF raises THEN st1 ELSE Put(st1, ResultKey(stage), value)
    IN  /\ state' = st2
        /\ errors' = IF raises THEN Append(errors, ErrorEntry(stage)) ELSE errors
        /\ raised' = IF raises THEN raised \cup {stage} ELSE raised
        /\ written' = IF raises THEN written ELSE written \cup {ResultKey(stage)}
        /\ pc' = NextNode(stage, st2)
        /\ executed' = Append(executed, stage)
        /\ UNCHANGED <<initial_state, run_state, clock, result>>

RunAgentNode(stage) ==
    /\ pc = stage
    /\ \E raises \in BOOLEAN :
        \E value \in (IF raises THEN {EmptyDict} ELSE AgentReturns(stage)) :
            NodeStep(stage, raises, value)

_run_correctness == RunAgentNode("correctness")

_run_complexity == RunAgentNode("complexity")

_run_readability == RunAgentNode("readability")

_run_edge_cases == RunAgentNode("edge_cases")

_run_plagiarism == RunAgentNode("plagiarism")

_run_summarizer ==
    /\ pc = "summarizer"
    /\ \E llm_ok \in BOOLEAN :
        LET st1 == Put(state, "current_agent", "summarizer")
            out == summarize(Get(st1, "correctness_result", EmptyDict),
                             Get(st1, "complexity_result", EmptyDict),
                             Get(st1, "readability_result", EmptyDict),
                             Get(st1, "edge_cases_result", EmptyDict),
                             llm_ok)
        IN  NodeStep("summarizer", out.raised, out.value)

_delay_2_seconds ==
    /\ pc \in {"delay_1", "delay_2", "delay_3", "delay_4", "delay_5"}
    /\ clock' = clock + DelaySeconds
    /\ pc' = NextNode(pc, state)
    /\ UNCHANGED <<initial_state, run_state, state, errors, executed,
                   raised, written, result>>

\* ---- run() --------------------------------------------------------------
\* run(), up to the await of graph.ainvoke(state)
run_begin ==
    /\ pc = "idle"
    /\ run_state' = Put(initial_state, "start_time", clock)
    /\ state' = Put(initial_state, "start_time", clock)
    /\ errors' = <<>>
    /\ pc' = "correctness"
    /\ UNCHANGED <<initial_state, clock, executed, raised, written, result>>

\* run(), after ainvoke returned: stamp end_time and duration
run_return ==
    /\ pc = "END"
    /\ result' = Put(Put(state, "end_time", clock),
                     "duration", clock - state["start_time"])
    /\ pc' = "returned"
    /\ UNCHANGED <<initial_state, run_state, state, errors, clock,
                   executed, raised, written>>

\* an except branch that starts a new error list for its entry
run_except_NewList ==
    /\ pc = "graph_error"
    /\ errors' = <<[stage |-> "Graph", message |-> "e"]>>
    /\ result' = run_state
    /\ pc' = "returned"
    /\ UNCHANGED <<initial_state, run_state, state, clock,
                   executed, raised, written>>

\* run(), the except branch: ainvoke raised
run_except ==
    /\ pc = "graph_error"
    /\ errors' = Append(errors, [stage |-> "Graph", message |-> "e"])
    /\ result' = run_state
    /\ pc' = "returned"
    /\ UNCHANGED <<initial_state, run_state, state, clock,
                   executed, raised, written>>

VARIABLES
    source,    \* the code handed to an analyzer: whether it parses, and its tree
    analysis   \* history: the last analyzer call and what it gave

anaVars == <<source, analysis>>

Languages == {"python", "java"}

\* a call of ComplexityAgent.analyze on the source
AnalyzeComplexity ==
    /\ \E language \in Languages, radon \in RadonOutcomes, llm_ok \in BOOLEAN :
        \E answer_is_json \in (IF language = "python" /\ llm_ok THEN {FALSE} ELSE BOOLEAN) :
            analysis' = [called |-> TRUE, agent |-> "complexity", language |-> language,
                         result |-> analyze(source, language, radon, answer_is_json, llm_ok)]
    /\ UNCHANGED source

\* a call of ReadabilityAgent.review on the source
ReviewReadability ==
    /\ \E language \in Languages, findings \in PylintFindings, llm_ok \in BOOLEAN :
        \E answer_is_json \in (IF language = "python" /\ llm_ok THEN {FALSE} ELSE BOOLEAN) :
            analysis' = [called |-> TRUE, agent |-> "readability", language |-> language,
                         findings |-> findings,
                         result |-> review(source, language, findings, answer_is_json, llm_ok)]
    /\ UNCHANGED source

AnalyzerSources ==
    {[parsable |-> TRUE, tree |-> t] : t \in LoopTrees \cup AllocTrees \cup ReadabilityTrees}
    \cup {[parsable |-> FALSE]}

\* ---- CorrectnessAgent (agents/correctness.py) ----------------------------
\* What running one test case comes to.  In _run_python_tests: the script
\* printed passed true or false, the subprocess ended with a non-zero code,
\* it timed out, or its output was no JSON.  In _llm_based_testing: the
\* answer held a JSON object saying passed true or false, it held no JSON
\* object, it held braces that are no JSON, or the call itself raised.
PythonOutcomes == {"passed", "failed", "nonzero", "timeout", "bad_output"}

LlmOutcomes == {"passed", "failed", "no_json", "bad_json", "llm_raises"}

NoResults == [tests_passed |-> 0, test_results |-> <<>>, errors |-> <<>>]

\* the loop body of _llm_based_testing after the language-model call
LlmTestStep(results, outcome) ==
    CASE outcome = "passed" ->
            [results EXCEPT !.tests_passed = @ + 1,
                            !.test_results = Append(@, [passed |-> TRUE])]
      [] outcome = "failed" ->
            [results EXCEPT !.test_results = Append(@, [passed |-> FALSE])]
      [] outcome = "no_json" -> results
      [] OTHER -> [results EXCEPT !.errors = Append(@, "Failed to parse LLM response")]

\* the loop body of _run_python_tests
PythonTestStep(results, outcome) ==
    CASE outcome = "passed" ->
            [results EXCEPT !.tests_passed = @ + 1,
                            !.test_results = Append(@, [passed |-> TRUE])]
      [] outcome = "failed" ->
            [results EXCEPT !.test_results = Append(@, [passed |-> FALSE])]
      [] outcome = "nonzero" ->
            [results EXCEPT !.test_results = Append(@, [passed |-> FALSE, error |-> "stderr"])]
      [] outcome = "timeout" ->
            [results EXCEPT !.test_results =
                Append(@, [passed |-> FALSE, error |-> "Test execution timed out"])]
      [] OTHER -> [results EXCEPT !.errors = Append(@, "e")]

RECURSIVE _run_python_tests(_, _)
\* _run_python_tests, the results after the first n test cases
_run_python_tests(outcomes, n) ==
    IF n = 0 THEN NoResults
    ELSE PythonTestStep(_run_python_tests(outcomes, n - 1), outcomes[n])

RECURSIVE _llm_based_testing(_, _)
\* _llm_based_testing, the results after the first n test cases
_llm_based_testing(outcomes, n) ==
    IF n = 0 THEN NoResults
    ELSE LlmTestStep(_llm_based_testing(outcomes, n - 1), outcomes[n])

\* CorrectnessAgent.review on test cases whose runs come to `outcomes`:
\* javascript calls _run_javascript_tests, which the class does not define;
\* the awaits of llm.ainvoke in _llm_based_testing and _generate_summary
\* have no handler
Correctness_review(language, outcomes, llm_ok) ==
    LET test_results ==
            IF language = "python" THEN _run_python_tests(outcomes, Len(outcomes))
            ELSE _llm_based_testing(outcomes, Len(outcomes))
    IN  IF \/ language = "javascript"
           \/ language /= "python" /\ \E i \in 1..Len(outcomes) : outcomes[i] = "llm_raises"
           \/ ~llm_ok
        THEN [raised |-> TRUE, value |-> EmptyDict]
        ELSE [raised |-> FALSE,
              value |-> [tests_passed |-> test_results.tests_passed,
                         total_tests |-> Len(outcomes),
                         test_results |-> test_results.test_results,
                         errors |-> test_results.errors,
                         summary |-> "summary"]]

\* a call of CorrectnessAgent.review; `source` holds the language and what
\* each test case's run comes to
ReviewCorrectness ==
    /\ \E llm_ok \in BOOLEAN :
        analysis' = [called |-> TRUE, agent |-> "correctness",
                     language |-> source.language,
                     result |-> Correctness_review(source.language, source.outcomes, llm_ok)]
    /\ UNCHANGED source

CorrectnessInputs ==
    UNION {[language : {l}, outcomes : [1..n -> (IF l = "python" THEN PythonOutcomes
                                                  ELSE LlmOutcomes)]] :
            l \in {"python", "javascript", "java"}, n \in 0..MaxTests}

\* ---- the runs checked --------------------------------------------------
vars == <<pc, initial_state, run_state, state, errors, clock, executed,
          raised, written, result, known_solutions, query, last_add, last_detect,
          source, analysis, threads, feedback_history, reports, summary>>

SubmittedCode == [parsable |-> TRUE, shape |-> 1, names |-> "f"]

\* a result left in the dict handed to run(), e.g. by an earlier review
StaleReport(key) ==
    CASE key = "correctness_result" -> [total_tests |-> MaxTests, tests_passed |-> MaxTests]
      [] key = "complexity_result"  -> [time_complexity |-> [big_o |-> O_1]]
      [] key = "readability_result" -> [scores |-> [naming |-> 20, documentation |-> 20,
                                                    structure |-> 20, style |-> 20]]
      [] key = "edge_cases_result"  -> [priority_cases |-> <<[severity |-> "critical"]>>]
      [] key = "plagiarism_result"  -> [similarity_score |-> 0, method |-> "structure"]
      [] key = "summarizer_result"  -> [overall_score |-> 0]

StaleKeySets == {{}} \cup {{k} : k \in ResultKeys} \cup {ResultKeys}

\* the dicts run() is called with
InitialStates(flags) ==
    {[k \in {"code", "language", "user_id"} \cup stale
            \cup (IF flag = "absent" THEN {} ELSE {"plagiarism_check"}) |->
        CASE k = "code" -> SubmittedCode
          [] k = "language" -> "python"
          [] k = "user_id" -> "u1"
          [] k = "plagiarism_check" -> flag
          [] OTHER -> StaleReport(k)] :
        flag \in flags, stale \in StaleKeySets}

InitGraph(flags) ==
    /\ pc = "idle"
    /\ initial_state \in InitialStates(flags)
    /\ run_state = EmptyDict
    /\ state = EmptyDict
    /\ errors = <<>>
    /\ clock = 0
    /\ executed = <<>>
    /\ raised = {}
    /\ written = {}
    /\ result = EmptyDict

InitDetectorEmpty ==
    /\ known_solutions = <<>>
    /\ query = [code |-> SubmittedCode, threshold |-> DefaultThreshold]
    /\ last_add = [called |-> FALSE]
    /\ last_detect = [called |-> FALSE]

\* no analyzer is called on its own
InitAnalyzerIdle ==
    /\ source = [parsable |-> FALSE]
    /\ analysis = [called |-> FALSE]

\* the summarizer object as constructed, no method called on its own
InitSummarizerIdle ==
    /\ feedback_history = <<>>
    /\ reports = <<EmptyDict, EmptyDict, EmptyDict, EmptyDict>>
    /\ summary = [called |-> FALSE]

\* no request is being served
InitThreadsIdle == threads = [t \in Threads |-> Idle] /\ InitSummarizerIdle

\* one review, the request typed as ReviewState declares it
Init ==
    /\ InitGraph({"True", "False", "absent"})
    /\ InitDetectorEmpty /\ InitAnalyzerIdle /\ InitThreadsIdle

Next ==
    \/ (run_begin /\ UNCHANGED <<detVars, anaVars, thrVars, sumVars>>)
    \/ (_run_correctness /\ UNCHANGED <<detVars, anaVars, thrVars, sumVars>>)
    \/ (_run_complexity /\ UNCHANGED <<detVars, anaVars, thrVars, sumVars>>)
    \/ (_run_readability /\ UNCHANGED <<detVars, anaVars, thrVars, sumVars>>)
    \/ (_run_edge_cases /\ UNCHANGED <<detVars, anaVars, thrVars, sumVars>>)
    \/ (_run_plagiarism /\ UNCHANGED <<detVars, anaVars, thrVars, sumVars>>)
    \/ (_run_summarizer /\ UNCHANGED <<detVars, anaVars, thrVars, sumVars>>)
    \/ (_delay_2_seconds /\ UNCHANGED <<detVars, anaVars, thrVars, sumVars>>)
    \/ (run_return /\ UNCHANGED <<detVars, anaVars, thrVars, sumVars>>)

Spec == Init /\ [][Next]_vars

\* one review whose plagiarism_check may also hold a value that is neither
\* True nor False
InitAnyFlag ==
    /\ InitGraph({"True", "False", "absent", "yes"})
    /\ InitDetectorEmpty /\ InitAnalyzerIdle /\ InitThreadsIdle

NextAnyFlag == Next \/ (run_except /\ UNCHANGED <<detVars, anaVars, thrVars, sumVars>>)

SpecAnyFlag == InitAnyFlag /\ [][NextAnyFlag]_vars

\* the detector on its own, put to use on a corpus
InitDetector ==
    /\ InitGraph({"absent"})
    /\ initial_state = [code |-> SubmittedCode, language |-> "python", user_id |-> "u1"]
    /\ known_solutions \in Corpora
    /\ query \in [code : Sources, threshold : Thresholds]
    /\ last_add = [called |-> FALSE]
    /\ last_detect = [called |-> FALSE]
    /\ InitAnalyzerIdle
    /\ InitThreadsIdle

NextDetector ==
    \/ (AddToDatabase /\ UNCHANGED <<graphVars, anaVars, thrVars, sumVars>>)
    \/ (Detect /\ UNCHANGED <<graphVars, anaVars, thrVars, sumVars>>)

SpecDetector == InitDetector /\ [][NextDetector]_vars

\* the analyzer agents on their own, each called on a source
InitAnalyzers ==
    /\ InitGraph({"absent"})
    /\ initial_state = [code |-> SubmittedCode, language |-> "python", user_id |-> "u1"]
    /\ InitDetectorEmpty
    /\ source \in AnalyzerSources
    /\ analysis = [called |-> FALSE]
    /\ InitThreadsIdle

NextAnalyzers ==
    \/ (AnalyzeComplexity /\ UNCHANGED <<graphVars, detVars, thrVars, sumVars>>)
    \/ (ReviewReadability /\ UNCHANGED <<graphVars, detVars, thrVars, sumVars>>)

SpecAnalyzers == InitAnalyzers /\ [][NextAnalyzers]_vars

\* the detector shared by the request threads, put to use on a corpus
InitThreads ==
    /\ InitGraph({"absent"})
    /\ initial_state = [code |-> SubmittedCode, language |-> "python", user_id |-> "u1"]
    /\ known_solutions \in Corpora
    /\ query = [code |-> SubmittedCode, threshold |-> DefaultThreshold]
    /\ last_add = [called |-> FALSE]
    /\ last_detect = [called |-> FALSE]
    /\ InitAnalyzerIdle
    /\ InitThreadsIdle

callVars == <<query, last_add, last_detect>>

NextThreads ==
    \/ ((\E t \in Threads : DetectAst(t)) /\ UNCHANGED <<graphVars, anaVars, callVars, sumVars>>)
    \/ ((\E t \in Threads : DetectTfidf(t)) /\ UNCHANGED <<graphVars, anaVars, callVars, sumVars>>)
    \/ ((\E t \in Threads : DetectStructure(t)) /\ UNCHANGED <<graphVars, anaVars, callVars, sumVars>>)
    \/ ((\E t \in Threads : AddCompute(t)) /\ UNCHANGED <<graphVars, anaVars, callVars, sumVars>>)
    \/ ((\E t \in Threads : AddStore(t)) /\ UNCHANGED <<graphVars, anaVars, callVars, sumVars>>)
    \/ ((\E t \in Threads : ThreadReturn(t)) /\ UNCHANGED <<graphVars, anaVars, callVars, sumVars>>)

SpecThreads == InitThreads /\ [][NextThreads]_vars

\* the correctness agent on its own, called on a list of test cases
InitCorrectness ==
    /\ InitGraph({"absent"})
    /\ initial_state = [code |-> SubmittedCode, language |-> "python", user_id |-> "u1"]
    /\ InitDetectorEmpty
    /\ source \in CorrectnessInputs
    /\ analysis = [called |-> FALSE]
    /\ InitThreadsIdle

NextCorrectness ==
    ReviewCorrectness /\ UNCHANGED <<graphVars, detVars, thrVars, sumVars>>

SpecCorrectness == InitCorrectness /\ [][NextCorrectness]_vars

\* the feature comparison of the detector on its own
InitSimilarity ==
    /\ InitGraph({"absent"})
    /\ initial_state = [code |-> SubmittedCode, language |-> "python", user_id |-> "u1"]
    /\ known_solutions = <<>>
    /\ query \in [features1 : FeatureVectors, features2 : FeatureVectors]
    /\ last_add = [called |-> FALSE]
    /\ last_detect = [called |-> FALSE]
    /\ InitAnalyzerIdle
    /\ InitThreadsIdle

NextSimilarity ==
    CalculateStructuralSimilarity /\ UNCHANGED <<graphVars, anaVars, thrVars, sumVars>>

SpecSimilarity == InitSimilarity /\ [][NextSimilarity]_vars

\* the summarizer on its own, called on the reports of a review
InitSummarizer ==
    /\ InitGraph({"absent"})
    /\ initial_state = [code |-> SubmittedCode, language |-> "python", user_id |-> "u1"]
    /\ InitDetectorEmpty
    /\ InitAnalyzerIdle
    /\ threads = [t \in Threads |-> Idle]
    /\ feedback_history = <<>>
    /\ reports \in SummarizerInputs
    /\ summary = [called |-> FALSE]

NextSummarizer ==
    \/ (Summarize /\ UNCHANGED <<graphVars, detVars, anaVars, thrVars>>)
    \/ (RecordFeedback /\ UNCHANGED <<graphVars, detVars, anaVars, thrVars>>)
    \/ (GetUserPreferences /\ UNCHANGED <<graphVars, detVars, anaVars, thrVars>>)

SpecSummarizer == InitSummarizer /\ [][NextSummarizer]_vars

\* ------------------------------------------------------------------------
\* Properties
\* ------------------------------------------------------------------------
IsPrefix(a, b) == Len(a) <= Len(b) /\ SubSeq(b, 1, Len(a)) = a

Occurrences(seq, x) == Cardinality({i \in 1..Len(seq) : seq[i] = x})

IndexOf(seq, x) == CHOOSE i \in 1..Len(seq) : seq[i] = x

\* the error entries a stage has in the list
ErrorsOf(stage) == {i \in 1..Len(errors) : errors[i].stage = ErrorLabel(stage)}

OrderWithSimilarity == Stages

OrderWithoutSimilarity ==
    <<"correctness", "complexity", "readability", "edge_cases", "summarizer">>

RequestFlag == Get(initial_state, "plagiarism_check", "False")

Finished == pc \in {"END", "returned"}

\* C1: the stages run one after another in the order correctness,
\* complexity, readability, edge_cases, (plagiarism), summarizer: what has
\* run so far is always an initial part of that order, the node about to run
\* is the next one of it, and a finished run has run all of it, plagiarism
\* being the only stage that may be missing.
C1_StagesInOrder ==
    /\ \/ IsPrefix(executed, OrderWithSimilarity)
       \/ IsPrefix(executed, OrderWithoutSimilarity)
    /\ \A s \in StageSet : Occurrences(executed, s) <= 1
    /\ pc \in StageSet =>
          \/ IsPrefix(Append(executed, pc), OrderWithSimilarity)
          \/ IsPrefix(Append(executed, pc), OrderWithoutSimilarity)
    /\ Finished => executed \in {OrderWithSimilarity, OrderWithoutSimilarity}

C1_Witness ==
    /\ pc = "returned"
    /\ executed = OrderWithSimilarity
    /\ clock = 5 * DelaySeconds

\* C2: an exception raised by a stage's agent call stays inside that stage's
\* node: the stage has exactly one entry in the error list, the graph run
\* itself does not fail, and in a finished run every stage after the raising
\* one has run as well (plagiarism only when the request routes through it).
C2_FailureIsolated ==
    /\ \A s \in raised : Cardinality(ErrorsOf(s)) = 1
    /\ pc /= "graph_error"
    /\ Finished =>
          \A s \in raised :
              \A t \in StageSet :
                  (/\ IndexOf(Stages, t) > IndexOf(Stages, s)
                   /\ (t = "plagiarism" => RequestFlag = "True"))
                  => t \in Range(executed)

C2_Witness ==
    /\ pc = "returned"
    /\ raised = StageSet
    /\ Len(errors) = Len(Stages)

\* C3: a stage's result key is in the state exactly when the stage has run
\* without raising, and the stage has an entry in the error list exactly
\* when it raised.
C3_ReportIffSucceeded ==
    pc /= "idle" =>
        \A s \in StageSet :
            /\ ResultKey(s) \in DOMAIN state
                  <=> (s \in Range(executed) /\ s \notin raised)
            /\ ErrorsOf(s) /= {} <=> s \in raised

\* C4: without plagiarism_check = True the plagiarism node never runs and no
\* plagiarism_result is written; with it the node runs exactly once, after
\* edge_cases and before summarizer.
C4_SimilarityOnlyWhenRouted ==
    /\ RequestFlag /= "True" =>
          /\ "plagiarism" \notin Range(executed)
          /\ "plagiarism_result" \notin written
    /\ (RequestFlag = "True" /\ "plagiarism" \in Range(executed)) =>
          /\ Occurrences(executed, "plagiarism") = 1
          /\ "edge_cases" \in Range(executed)
          /\ IndexOf(executed, "edge_cases") < IndexOf(executed, "plagiarism")
    /\ (RequestFlag = "True" /\ "summarizer" \in Range(executed)) =>
          /\ Occurrences(executed, "plagiarism") = 1
          /\ IndexOf(executed, "plagiarism") < IndexOf(executed, "summarizer")

C4_Witness ==
    /\ pc = "returned"
    /\ RequestFlag = "True"
    /\ "plagiarism" \in Range(executed)
    /\ "plagiarism_result" \in written

AnalysisStages == {"correctness", "complexity", "readability", "edge_cases"}

\* the report summarize receives for a stage that left a result
ReportOf(st, stage) == Get(st, ResultKey(stage), EmptyDict)

\* the overall score when stage s contributes its default and every other
\* analysis stage the report it returned
ScoreWithDefaultFor(st, s) ==
    _calculate_overall_score(
        [i \in 1..4 |-> IF Stages[i] = s THEN EmptyDict ELSE ReportOf(st, Stages[i])])

\* C5: when exactly one analysis stage raised and the summarizer returned,
\* the returned state has one error entry and no result key for that stage,
\* and the overall score is the one computed with that stage's default.
C5_DefaultForFailedStage ==
    (pc = "returned" /\ "summarizer" \notin raised) =>
        \A s \in AnalysisStages :
            raised = {s} =>
                /\ Cardinality(ErrorsOf(s)) = 1
                /\ ResultKey(s) \notin DOMAIN result
                /\ result["summarizer_result"].overall_score
                      = ScoreWithDefaultFor(result, s)

\* C6: every returned state holds a summarizer_result with an overall score
\* produced by this run, whichever stages or language-model calls failed.
C6_AlwaysAggregateReport ==
    pc = "returned" =>
        /\ "summarizer_result" \in written
        /\ "overall_score" \in DOMAIN result["summarizer_result"]

\* C7: every state run() returns carries end_time and duration, duration
\* being end_time - start_time.
C7_AlwaysStamped ==
    pc = "returned" =>
        /\ {"start_time", "end_time", "duration"} \subseteq DOMAIN result
        /\ result["duration"] = result["end_time"] - result["start_time"]

\* detect was called after add_to_database had registered a parsable source
DetectAfterAdd == last_detect.called /\ last_add.called /\ last_add.code.parsable

\* C8: querying a parsable source that was registered before reports method
\* ast with score 1.0 and a match carrying the label it was registered with.
C8_RegisteredSourceFound ==
    (DetectAfterAdd /\ last_add.code = query.code /\ query.threshold = DefaultThreshold) =>
        /\ last_detect.result.method = "ast"
        /\ last_detect.result.similarity_score = SimUnit
        /\ \E i \in 1..Len(last_detect.result.matches) :
              last_detect.result.matches[i].source = last_add.source

\* two parsable sources with the same tree shape and different identifiers
RenamedOnly(a, b) ==
    a.parsable /\ b.parsable /\ a.shape = b.shape /\ a.names /= b.names

\* C9: querying a source that differs only in identifier names from a source
\* registered before gives a structural-hash score of 1.0.
C9_RenamedCloneFound ==
    (DetectAfterAdd /\ RenamedOnly(last_add.code, query.code)) =>
        last_detect.ast.score = SimUnit

MethodOrder == <<"ast", "tfidf", "structure">>

\* C10: detect invokes the methods in the order ast, tfidf, structure and
\* returns the report of the first one whose score is strictly above the
\* threshold, invoking none after it; a score equal to the threshold does
\* not end the sequence.
C10_FirstAboveThreshold ==
    last_detect.called =>
        LET r == last_detect.result
            thr == query.threshold
            a == last_detect.ast
            t == last_detect.tfidf
        IN  /\ IsPrefix(r.calls, MethodOrder)
            /\ a.score > thr =>
                  r.calls = <<"ast">> /\ r.method = "ast" /\ r.details = a
                  /\ r.similarity_score = a.score
            /\ (a.score <= thr /\ t.score > thr) =>
                  r.calls = <<"ast", "tfidf">> /\ r.method = "tfidf"
                  /\ r.details = t /\ r.similarity_score = t.score
            /\ (a.score <= thr /\ t.score <= thr) =>
                  r.calls = MethodOrder /\ r.method = "structure"

C10_Witness ==
    /\ last_detect.called
    /\ last_detect.ast.score = query.threshold
    /\ last_detect.ast.score = SimUnit
    /\ last_detect.result.method = "structure"

RECURSIVE LoopNesting(_)
LoopNesting(node) ==
    LET below == {LoopNesting(node.body[i]) : i \in 1..Len(node.body)}
        deepest == IF below = {} THEN 0 ELSE CHOOSE d \in below : \A e \in below : e <= d
    IN  (IF node.kind \in {"For", "While"} THEN 1 ELSE 0) + deepest

\* the complexity report of a Python source that parsed
ComplexityReported ==
    /\ analysis.called
    /\ analysis.agent = "complexity"
    /\ analysis.language = "python"
    /\ ~analysis.result.raised
    /\ source.parsable

\* C12: the loop visitor reports constant time for nesting depth 0, linear
\* for 1, quadratic for 2 and polynomial of degree exactly d for every d > 2,
\* d being the largest number of for/while statements open on any path.
C12_TimeClassByDepth ==
    ComplexityReported =>
        LET d == LoopNesting(source.tree)
            time == analysis.result.value.time_complexity
        IN  CASE d = 0 -> /\ time.big_o = <<"O", "(", "1", ")">>
                          /\ time.explanation = <<"No loops detected - constant time">>
              [] d = 1 -> /\ time.big_o = <<"O", "(", "n", ")">>
                          /\ time.explanation = <<"Single loop - linear time">>
              [] d = 2 -> /\ time.big_o = O_n2_Visitor
                          /\ time.explanation = <<"Nested loops detected - quadratic time">>
              [] OTHER -> /\ time.big_o = <<"O", "(", "n", "^">> \o StrOfInt(d) \o <<")">>
                          /\ time.explanation =
                                <<"Deeply nested loops (depth ">> \o StrOfInt(d)
                                    \o <<") - polynomial time">>

\* a module of two statements, the deeper one three loops deep with a
\* conditional in between, was analysed
C12_Witness ==
    /\ ComplexityReported
    /\ LoopNesting(source.tree) = 3
    /\ Len(source.tree.body) = 2
    /\ LoopNesting(source.tree.body[1]) < 3
    /\ \E i \in 1..2 : source.tree.body[i].kind = "If"
    /\ analysis.result.value.time_complexity.big_o = <<"O", "(", "n", "^", "3", ")">>


\* the container-allocation sites of a tree: list, dict and set literals and
\* calls of the list, dict or set constructor
RECURSIVE AllocationSites(_)
AllocationSites(node) ==
    LET here ==
            \/ node.kind \in {"Dict", "Set"}
            \/ node.kind = "List" /\ node.ctx = "Load"
            \/ /\ node.kind = "Call"
               /\ node.func.kind = "Name"
               /\ node.func.id \in {"list", "dict", "set"}
    IN  (IF here THEN 1 ELSE 0)
        + SeqSum([i \in 1..Len(node.body) |-> AllocationSites(node.body[i])])

\* C13: the space class is linear exactly when the source holds at least one
\* container-allocation site anywhere, constant otherwise, and the detail
\* list holds at most five sites.
C13_LinearIffAllocationSite ==
    ComplexityReported =>
        LET space == analysis.result.value.space_complexity
        IN  /\ space.big_o = (IF AllocationSites(source.tree) > 0 THEN O_n ELSE O_1)
            /\ Len(space.details) <= 5


\* the readability report of a Python source that parsed
ReadabilityReported ==
    /\ analysis.called
    /\ analysis.agent = "readability"
    /\ analysis.language = "python"
    /\ ~analysis.result.raised
    /\ source.parsable

ScoreNames == {"naming", "documentation", "structure", "style"}

\* the source without its last top-level statement
WithoutLast(tree) == [tree EXCEPT !.body = SubSeq(@, 1, Len(@) - 1)]

\* C14: each readability sub-score (naming, documentation, structure, style)
\* starts at 10, never rises as violations are added and is never negative.
C14_ScoresFlooredAndMonotone ==
    ReadabilityReported =>
        LET scores == analysis.result.value.scores
        IN  /\ \A k \in ScoreNames : scores[k] >= 0 /\ scores[k] <= InitialScore
            /\ source.tree.body /= <<>> =>
                LET fewer == Readability_analyze_python(
                                [parsable |-> TRUE, tree |-> WithoutLast(source.tree)],
                                analysis.findings).scores
                IN  \A k \in ScoreNames : scores[k] <= fewer[k]


\* ---- the aggregate score -------------------------------------------------
\* the summarizer of this run returned
Summarized == pc = "returned" /\ "summarizer_result" \in written

\* the four sub-scores _calculate_overall_score takes from the reports
SubScores(st) ==
    [correctness |-> CorrectnessScore(ReportOf(st, "correctness")),
     complexity |-> _score_complexity(ReportOf(st, "complexity")),
     readability |-> ReadabilityScore(ReportOf(st, "readability")),
     robustness |-> RobustnessScore(ReportOf(st, "edge_cases"))]

\* reports whose sub-scores are 100, 80, 70 and 70
KnownSubScores ==
    SubScores(result) = [correctness |-> 100 * Unit, complexity |-> 80 * Unit,
                         readability |-> 70 * Unit, robustness |-> 70 * Unit]

\* C15: for four reports whose sub-scores are correctness 100, complexity 80,
\* readability 70 and robustness 70 the overall score is 84.
C15_KnownScoresGive84 ==
    (Summarized /\ KnownSubScores) => result["summarizer_result"].overall_score = 84

\* C15 as the code has it: for those four sub-scores the overall score is 83,
\* the weighted sum 35 + 20 + 14 + 14.
C15_KnownScoresGive83 ==
    (Summarized /\ KnownSubScores) => result["summarizer_result"].overall_score = 83

\* a review whose reports have exactly those sub-scores was summarized
C15_Witness ==
    /\ Summarized
    /\ KnownSubScores
    /\ result["summarizer_result"].overall_score = 83


\* C16: the overall score is an integer from 0 to 100 and every per-stage
\* sub-score of the aggregate report lies from 0 to 100, robustness included
\* whatever the number of priority cases.
C16_ScoresWithinRange ==
    Summarized =>
        LET report == result["summarizer_result"]
        IN  /\ report.overall_score \in 0..100
            /\ \A k \in DOMAIN report.agent_scores :
                /\ report.agent_scores[k] >= 0
                /\ report.agent_scores[k] <= 100 * Unit


\* C17: ComplexityAgent.analyze and ReadabilityAgent.review never leave by an
\* exception: for a source that does not parse, and for any internal fault,
\* they return a default or minimal report.
C17_AnalyzersNeverRaise ==
    analysis.called =>
        /\ ~analysis.result.raised
        /\ (analysis.language = "python" /\ ~source.parsable) =>
            IF analysis.agent = "complexity"
            THEN /\ analysis.result.value.time_complexity = DefaultAnalysis.time
                 /\ analysis.result.value.space_complexity = DefaultAnalysis.space
            ELSE /\ \A k \in ScoreNames : analysis.result.value.scores[k] = 0
                 /\ analysis.result.value.metrics = EmptyDict

\* C19: every add_to_database call on a parsable source grows the corpus by
\* exactly one entry, appended last, that holds the raw source, the label, the
\* structural hash and the feature vector; the earlier entries stay as they
\* were and in order, also when the source is already in the corpus.
C19_AppendsOneEntry ==
    (last_add.called /\ last_add.code.parsable) =>
        /\ Len(known_solutions) = Len(last_add.before) + 1
        /\ SubSeq(known_solutions, 1, Len(last_add.before)) = last_add.before
        /\ LET entry == known_solutions[Len(known_solutions)]
           IN  /\ {"code", "source", "ast_hash", "features"} \subseteq DOMAIN entry
               /\ entry.code = last_add.code
               /\ entry.source = last_add.source
               /\ entry.features = _extract_structural_features(last_add.code)

\* thread t is inside a call of the method `op`
InCall(t, op) == threads[t].op = op /\ threads[t].pc /= "returned"

WeightedSum(scores) ==
    scores.correctness * WeightCorrectness + scores.complexity * WeightComplexity
    + scores.readability * WeightReadability + scores.robustness * WeightRobustness

\* C20: the overall score is the weighted sum of the four sub-scores rounded to
\* the nearest integer, i.e. it lies within one half of the weighted sum, for
\* every combination of sub-scores.
C20_RoundedToNearest ==
    Summarized =>
        2 * Abs(result["summarizer_result"].overall_score * 100 * Unit
                - WeightedSum(SubScores(result))) <= 100 * Unit

\* C21: the aggregator scores the time class the complexity analyzer emits by
\* the lookup table: 100 for loop depth 0, 80 for depth 1, 50 for depth 2,
\* and the score 60 is given only to a class outside the table (depth > 2).
C21_EmittedClassScoredByTable ==
    ComplexityReported =>
        LET d == LoopNesting(source.tree)
            score == _score_complexity(analysis.result.value)
        IN  CASE d = 0 -> score = 100 * Unit
              [] d = 1 -> score = 80 * Unit
              [] d = 2 -> score = 50 * Unit
              [] OTHER -> score = DefaultComplexityScore * Unit

\* the sub-scores as documented: 70 for a correctness report without tests,
\* 60 for a complexity report without a recognized class, 70 for an
\* edge-case report without priority cases
DocumentedSubScores(st) ==
    LET time == Get(ReportOf(st, "complexity"), "time_complexity", EmptyDict)
    IN  [correctness |-> CorrectnessScore(ReportOf(st, "correctness")),
         complexity |-> IF "big_o" \in DOMAIN time
                        THEN _score_complexity(ReportOf(st, "complexity"))
                        ELSE DefaultComplexityScore * Unit,
         readability |-> ReadabilityScore(ReportOf(st, "readability")),
         robustness |-> RobustnessScore(ReportOf(st, "edge_cases"))]

\* C22: for a missing or empty stage report the aggregator uses the stage's
\* documented default (correctness 70, complexity 60, robustness 70), in the
\* weighted sum and in the agent_scores of the aggregate report alike.
C22_DocumentedDefaultsUsed ==
    Summarized =>
        LET report == result["summarizer_result"]
            documented == DocumentedSubScores(result)
        IN  /\ report.overall_score = IntOf(WeightedSum(documented), 100 * Unit)
            /\ report.agent_scores.correctness = documented.correctness
            /\ report.agent_scores.complexity = documented.complexity
            /\ report.agent_scores.robustness = documented.robustness

\* ---- the critical issues -------------------------------------------------
\* summarize returned on its own
SummarizeReturned ==
    summary.called /\ summary.op = "summarize" /\ ~summary.result.raised

\* the position of the message with the given text in the list, 0 if absent
PositionOf(issues, text) ==
    IF \E i \in 1..Len(issues) : issues[i].issue = text
    THEN CHOOSE i \in 1..Len(issues) : issues[i].issue = text
    ELSE 0

IssueOrder ==
    <<"test(s) failing", "High complexity in", "readability issues found",
      "critical edge cases to test">>

\* C23: the critical issues come in the order failing tests, hot spots,
\* readability issue count, critical edge cases, at most 5 of them; the
\* failing-test entry is there only for a failed count above 0, the hot-spot
\* entry names at most 3 hot spots, the readability entry is there only for
\* more than 5 issues, and the edge-case entry counts the cases of severity
\* critical only.
C23_CriticalIssuesInOrder ==
    SummarizeReturned =>
        LET issues == summary.result.value.critical_issues
            failed == Get(reports[1], "total_tests", 0) - Get(reports[1], "tests_passed", 0)
            hotspots == Get(reports[2], "hotspots", <<>>)
            n_issues == Len(Get(reports[3], "issues", <<>>))
            cases == Get(reports[4], "priority_cases", <<>>)
            n_critical == Cardinality({i \in 1..Len(cases) : cases[i].severity = "critical"})
            at(text) == PositionOf(issues, text)
        IN  /\ Len(issues) <= MaxCriticalIssues
            /\ \A i \in 1..Len(issues) : Occurrences(IssueOrder, issues[i].issue) = 1
            /\ \A i, j \in 1..Len(issues) :
                  i < j => IndexOf(IssueOrder, issues[i].issue)
                              < IndexOf(IssueOrder, issues[j].issue)
            /\ (at(IssueOrder[1]) /= 0) <=> (failed > 0)
            /\ at(IssueOrder[1]) /= 0 => issues[at(IssueOrder[1])].count = failed
            /\ (at(IssueOrder[2]) /= 0) <=> (hotspots /= <<>>)
            /\ at(IssueOrder[2]) /= 0 =>
                  LET named == issues[at(IssueOrder[2])].functions
                  IN  /\ Len(named) <= MaxNamedHotspots
                      /\ \A i \in 1..Len(named) : named[i] = hotspots[i].function
            /\ (at(IssueOrder[3]) /= 0) <=> (n_issues > ManyReadabilityIssues)
            /\ at(IssueOrder[3]) /= 0 => issues[at(IssueOrder[3])].count = n_issues
            /\ (at(IssueOrder[4]) /= 0) <=> (n_critical > 0)
            /\ at(IssueOrder[4]) /= 0 => issues[at(IssueOrder[4])].count = n_critical

\* every kind of entry at once: a failed test, more hot spots than are named,
\* more than five readability issues, a critical and a lesser edge case
C23_Witness ==
    /\ SummarizeReturned
    /\ Len(summary.result.value.critical_issues) = 4
    /\ Len(reports[2].hotspots) > MaxNamedHotspots
    /\ \E i, j \in 1..Len(reports[4].priority_cases) :
          /\ reports[4].priority_cases[i].severity = "critical"
          /\ reports[4].priority_cases[j].severity /= "critical"

\* ---- feedback ------------------------------------------------------------
\* the number of entries of user_id in the history whose rating is in `set`
RatingsIn(history, user_id, set) ==
    Cardinality({i \in 1..Len(history) :
                    history[i].user_id = user_id /\ history[i].rating \in set})

\* C30: every record_feedback call appends exactly one entry, with the user
\* and the rating given, to feedback_history; and _get_user_preferences
\* returns concise when the user's ratings below 3 outnumber those above 3,
\* detailed in the opposite case, and no preference on a tie or without
\* feedback.
C30_FeedbackRecorded ==
    /\ (summary.called /\ summary.op = "record_feedback") =>
          /\ ~summary.raised
          /\ Len(feedback_history) = Len(summary.before) + 1
          /\ SubSeq(feedback_history, 1, Len(summary.before)) = summary.before
          /\ feedback_history[Len(feedback_history)].user_id = summary.user_id
          /\ feedback_history[Len(feedback_history)].rating = summary.rating
    /\ (summary.called /\ summary.op = "_get_user_preferences") =>
          LET below == RatingsIn(feedback_history, summary.user_id,
                                 {r \in Ratings : r < NeutralRating})
              above == RatingsIn(feedback_history, summary.user_id,
                                 {r \in Ratings : r > NeutralRating})
          IN  summary.result = IF below > above THEN [style |-> "concise"]
                               ELSE IF above > below THEN [style |-> "detailed"]
                               ELSE EmptyDict

C27_SelfSimilarSymmetricBounded ==
    last_detect.called =>
        /\ query.features1 = query.features2 => last_detect.similarity = SimUnit
        /\ last_detect.similarity = last_detect.swapped
        /\ last_detect.similarity >= 0
        /\ last_detect.similarity <= SimUnit

\* ---- what a node leaves alone --------------------------------------------
DelayNodes == {"delay_1", "delay_2", "delay_3", "delay_4", "delay_5"}

\* the keys the node of a stage may write: its result and current_agent
OwnKeys(stage) == {stage \o "_result", "current_agent"}

\* C25: no step of a run changes the code and language of the state; a delay
\* node changes nothing of the state and the error list, and a stage node
\* changes at most its own result key and current_agent (and the error list),
\* every other key, the other stages' results included, staying as it was.
C25_SubmissionAndOtherResultsKept ==
    [][/\ pc /= "idle" =>
            /\ state'["code"] = state["code"]
            /\ state'["language"] = state["language"]
       /\ pc \in DelayNodes => (state' = state /\ errors' = errors)
       /\ pc \in StageSet =>
            /\ DOMAIN state \subseteq DOMAIN state'
            /\ DOMAIN state' \subseteq DOMAIN state \cup OwnKeys(pc)
            /\ \A k \in DOMAIN state \ OwnKeys(pc) : state'[k] = state[k]
            /\ IsPrefix(errors, errors')]_vars

\* a run through all six stages returned with the submission it was given,
\* some stages having stored a result and some having raised
C25_Witness ==
    /\ pc = "returned"
    /\ executed = OrderWithSimilarity
    /\ written /= {}
    /\ raised /= {}
    /\ result["code"] = initial_state["code"]
    /\ result["language"] = initial_state["language"]

\* the sum and the number of the line spans (end_lineno - lineno) of the
\* functions in the tree
RECURSIVE SpanTotals(_)
SpanTotals(node) ==
    LET below == [i \in 1..Len(node.body) |-> SpanTotals(node.body[i])]
        own == IF node.kind = "FunctionDef" THEN node.end_lineno - node.lineno ELSE 0
    IN  [sum |-> own + SeqSum([i \in 1..Len(below) |-> below[i].sum]),
         count |-> (IF node.kind = "FunctionDef" THEN 1 ELSE 0)
                     + SeqSum([i \in 1..Len(below) |-> below[i].count])]

\* C26: for a source with at least one function, metrics.avg_function_length
\* of the readability report is the arithmetic mean of the line spans of the
\* functions.
C26_MeanFunctionLength ==
    (ReadabilityReported /\ SpanTotals(source.tree).count > 0) =>
        LET avg == analysis.result.value.metrics.avg_function_length
            spans == SpanTotals(source.tree)
        IN  avg.sum * spans.count = spans.sum * avg.count

\* ---- the test accounting -------------------------------------------------
\* C28: after CorrectnessAgent.review returned, on any language path, every
\* test case is in test_results or in errors, exactly once (their lengths add
\* up to total_tests), and tests_passed is the number of test_results marked
\* passed and not above total_tests.
C28_EveryTestAccounted ==
    (analysis.called /\ analysis.agent = "correctness" /\ ~analysis.result.raised) =>
        LET r == analysis.result.value
        IN  /\ r.total_tests = Len(source.outcomes)
            /\ Len(r.test_results) + Len(r.errors) = r.total_tests
            /\ r.tests_passed =
                  Cardinality({i \in 1..Len(r.test_results) : r.test_results[i].passed})
            /\ r.tests_passed <= r.total_tests

\* ---- the error list ------------------------------------------------------
StageLabels == {ErrorLabel(s) : s \in StageSet}

StageOfLabel(label) == CHOOSE s \in StageSet : ErrorLabel(s) = label

\* the entries of stages come in the order the stages ran, one per stage at
\* most
StageEntriesInOrder ==
    /\ \A s \in StageSet : Cardinality(ErrorsOf(s)) <= 1
    /\ \A i, j \in 1..Len(errors) :
          (i < j /\ errors[i].stage \in StageLabels /\ errors[j].stage \in StageLabels) =>
              /\ StageOfLabel(errors[i].stage) \in Range(executed)
              /\ StageOfLabel(errors[j].stage) \in Range(executed)
              /\ IndexOf(executed, StageOfLabel(errors[i].stage))
                    < IndexOf(executed, StageOfLabel(errors[j].stage))

\* between the reset in run() and the return no entry is removed or rewritten
ErrorsOnlyGrow == pc \notin {"idle", "returned"} => IsPrefix(errors, errors')

\* C29: in every state of a run the error list is ordered by stage execution
\* order, has at most one entry per stage and is never longer than the number
\* of stages executed so far; and from the reset to the return it only grows.
C29_ErrorListWithinStagesRun ==
    /\ [](StageEntriesInOrder /\ Len(errors) <= Len(executed))
    /\ [][ErrorsOnlyGrow]_vars

\* C29 with the entry of run() itself: the list is never longer than the
\* number of stages executed so far plus one, the extra entry being the
\* "Graph" entry that run() appends last when the graph run failed; the
\* stage entries are ordered by execution, one per stage at most, and the
\* list only grows.
C29_ErrorListWithinStagesRunAndGraph ==
    /\ [](/\ StageEntriesInOrder
          /\ \A i \in 1..Len(errors) :
                errors[i].stage \notin StageLabels =>
                    /\ errors[i].stage = "Graph"
                    /\ i = Len(errors)
                    /\ pc = "returned"
          /\ Cardinality({i \in 1..Len(errors) : errors[i].stage \in StageLabels})
                <= Len(executed))
    /\ [][ErrorsOnlyGrow]_vars

\* every stage that ran raised, and then the graph run failed
C29_Witness ==
    /\ pc = "returned"
    /\ Len(executed) = 4
    /\ Len(errors) = Len(executed) + 1
    /\ errors[Len(errors)].stage = "Graph"
====
